---- MODULE Spec2Model ----
(***************************************************************************)
(* Model of the three Solana (Anchor) programs of the repository:          *)
(*                                                                         *)
(*   deposit_contract   src/call/solana/programs/deposit-contract          *)
(*   connected (secure) src/lending-zeta-solana-sui/solana/programs/       *)
(*                      connected                                          *)
(*   connected (example) src/call/solana/programs/connected                *)
(*                                                                         *)
(* One action per instruction.  An instruction is one transaction: Anchor  *)
(* first validates the #[derive(Accounts)] struct, then runs the handler;  *)
(* when either returns Err the runtime discards every account write of the *)
(* instruction, so a failed call changes nothing but the observed result   *)
(* (last_call).                                                            *)
(***************************************************************************)
EXTENDS Integers, Sequences, FiniteSets, TLC

\* ------------------------------------------------------------------ bounds
\* amounts offered to the entry points are 0, 1, .., MaxAmountSteps steps
MaxAmountSteps == 2
\* the funded user starts with this many steps of the funded token (and with
\* one step of lamports)
InitBalanceSteps == 2
\* cap on asset_count explored in the secure connected program
MaxAssets == 2
\* number of byte values the beneficiaries offered to the encoders are built from
MaxByteSamples == 32

\* ------------------------------------------------------- program constants
DEPOSIT_FEE == 2000000
GAS_LIMIT == 5000000
MAX_SUPPORTED_ASSETS == 32
GATEWAY_PROGRAM_ID == "ZETAjseVjuFsxdRxo6MmTCvqFwb3ZHUx56Co3vCmGis"
ZETACHAIN_GATEWAY_PROGRAM_ID == "ZETAjseVjuFsxdRxo6MmTCvqVPTp5NHfkDdyVLs2BcV"
TSS_AUTHORITY == "TSSauthGX7tV3YVnXjmKtMCgQVp7xKpvQs2zNzg9Vm1"
\* Pubkey::default() and system_program::ID are the same all-zero key
NATIVE_SOL == "11111111111111111111111111111111"

\* ------------------------------------------------------------- input sets
\* half the fee floor, so that one step is a positive amount below DEPOSIT_FEE
AmountStep == DEPOSIT_FEE \div 2
Amounts == {k * AmountStep : k \in 0..MaxAmountSteps}
\* amounts offered to borrow_cross_chain and withdraw_cross_chain
RelayAmounts == {0, AmountStep}
Users == {"alice", "bob"}
\* the user who holds lamports and tokens
Funded == "alice"
\* the identity that signs initialize and becomes the authority
Deployers == {"alice"}
Mints == {"mintA", "mintB"}
\* the mint of which the funded user holds tokens
FundedMint == "mintA"
Addr(b) == [i \in 1..20 |-> b]
Address20 == {Addr(1), Addr(2)}
\* the address offered to update_lending_protocol_address
NewAddresses == {Addr(1)}
\* on_behalf_of / recipient / sender arguments (copied into events and mailbox)
Beneficiaries == {Addr(2)}
ChainIds == {7000, 7001}
\* the zeta_chain_id a deployment is initialized with
InitChainIds == {7000}
DestChains == {421614}
Decimals == {9}
\* the account that holds the program's custody (contract_state / deposit_contract
\* for lamports, the contract's token account for tokens)
CONTRACT == "contract"
Holders == Users \cup {CONTRACT}
Programs == {"deposit_contract", "connected_secure", "connected_example"}

Ok == "Ok"
\* an account that has not been created
NoAccount == [initialized |-> FALSE]

VARIABLES
    program,                \* the deployed program the behaviour drives
    contract_state,         \* deposit_contract: ContractState account
    asset_config,           \* deposit_contract: AssetConfig account per mint
    contract_token_account, \* deposit_contract: mints whose contract ATA exists
    deposit_contract,       \* connected (secure): DepositContract account
    pda,                    \* connected: Pda account (the inbound mailbox)
    lamports,               \* SOL balance per holder
    token_balance,          \* token balance per holder and mint
    last_call               \* observable outcome of the last instruction

vars == <<program, contract_state, asset_config, contract_token_account,
          deposit_contract, pda, lamports, token_balance, last_call>>

\* the accounts of each program, for UNCHANGED
dc_accounts == <<contract_state, asset_config, contract_token_account>>
balances == <<lamports, token_balance>>

\* outcome of an instruction: its name, the signer and arguments it was called
\* with, Ok or the error it returned, the events it emitted and the gateway
\* adapter calls it made (both empty when it failed)
Outcome(op, args, err, events, submits) ==
    [op |-> op, args |-> args, err |-> err,
     events |-> IF err = Ok THEN events ELSE <<>>,
     submits |-> IF err = Ok THEN submits ELSE <<>>]

Init ==
    /\ program \in Programs
    /\ contract_state = NoAccount
    /\ asset_config = [m \in Mints |-> NoAccount]
    /\ contract_token_account = {}
    /\ deposit_contract = NoAccount
    \* the secure program has no instruction that creates its Pda account: it is
    \* provisioned outside the program; the example program creates it in initialize
    /\ pda = IF program = "connected_secure"
             THEN [last_sender |-> Addr(0), last_message |-> <<>>]
             ELSE NoAccount
    /\ lamports = [h \in Holders |->
                     IF h = Funded THEN AmountStep ELSE 0]
    /\ token_balance = [h \in Holders |-> [m \in Mints |->
                     IF h = Funded /\ m = FundedMint
                     THEN InitBalanceSteps * AmountStep ELSE 0]]
    /\ last_call = Outcome("deploy", <<>>, Ok, <<>>, <<>>)

\* ======================================================================
\* deposit_contract program
\* ======================================================================

\* Account<'info, ContractState> of every instruction but initialize
dc_contract_state_account ==
    IF contract_state = NoAccount THEN "AccountNotInitialized" ELSE Ok

\* the has_one constraint left out
has_one_anyone(signer) == Ok

\* has_one = authority @ DepositContractError::Unauthorized
dc_has_one_authority(signer) ==
    IF contract_state.authority # signer THEN "Unauthorized" ELSE Ok

\* Initialize without the init constraint on contract_state
initialize_over_existing == Ok

\* #[derive(Accounts)] Initialize: contract_state is init
dc_initialize_accounts ==
    IF contract_state # NoAccount THEN "AccountAlreadyInUse" ELSE Ok

dc_initialize(authority, lending_protocol_address, zeta_chain_id) ==
    /\ program = "deposit_contract"
    /\ LET err == dc_initialize_accounts IN
       /\ contract_state' =
            IF err = Ok
            THEN [authority |-> authority,
                  lending_protocol_address |-> lending_protocol_address,
                  zeta_chain_id |-> zeta_chain_id,
                  is_paused |-> FALSE]
            ELSE contract_state
       /\ last_call' = Outcome("initialize",
            [authority |-> authority,
             lending_protocol_address |-> lending_protocol_address,
             zeta_chain_id |-> zeta_chain_id],
            err,
            <<[name |-> "ContractInitialized", authority |-> authority,
               lending_protocol_address |-> lending_protocol_address,
               zeta_chain_id |-> zeta_chain_id]>>, <<>>)
    /\ UNCHANGED <<program, asset_config, contract_token_account,
                   deposit_contract, pda, balances>>

\* AddSupportedAsset refusing a paused contract
add_accounts_refusing_paused(signer, mint) ==
    IF dc_contract_state_account # Ok THEN dc_contract_state_account
    ELSE IF contract_state.is_paused THEN "ContractPaused"
    ELSE IF asset_config[mint] # NoAccount THEN "AccountAlreadyInUse"
    ELSE dc_has_one_authority(signer)

\* AddSupportedAsset with init_if_needed in place of init
add_accounts_init_if_needed(signer, mint) ==
    IF dc_contract_state_account # Ok THEN dc_contract_state_account
    ELSE dc_has_one_authority(signer)

\* #[derive(Accounts)] AddSupportedAsset: Anchor deserializes the accounts, then
\* runs the init constraint (asset_config), then the other constraints (has_one)
dc_add_supported_asset_accounts(signer, mint) ==
    IF dc_contract_state_account # Ok THEN dc_contract_state_account
    ELSE IF asset_config[mint] # NoAccount THEN "AccountAlreadyInUse"
    ELSE dc_has_one_authority(signer)

dc_add_supported_asset(signer, mint, decimals, is_native) ==
    /\ program = "deposit_contract"
    /\ LET err == dc_add_supported_asset_accounts(signer, mint) IN
       /\ asset_config' =
            IF err = Ok
            THEN [asset_config EXCEPT ![mint] =
                    [mint |-> mint, decimals |-> decimals,
                     is_native |-> is_native, is_supported |-> TRUE]]
            ELSE asset_config
       /\ last_call' = Outcome("add_supported_asset",
            [signer |-> signer, mint |-> mint, decimals |-> decimals,
             is_native |-> is_native],
            err,
            <<[name |-> "AssetAdded", mint |-> mint, decimals |-> decimals,
               is_native |-> is_native]>>, <<>>)
    /\ UNCHANGED <<program, contract_state, contract_token_account,
                   deposit_contract, pda, balances>>

\* #[derive(Accounts)] RemoveSupportedAsset
dc_remove_supported_asset_accounts(signer, mint) ==
    IF dc_contract_state_account # Ok THEN dc_contract_state_account
    ELSE IF asset_config[mint] = NoAccount THEN "AccountNotInitialized"
    ELSE dc_has_one_authority(signer)

dc_remove_supported_asset(signer, mint) ==
    /\ program = "deposit_contract"
    /\ LET err == dc_remove_supported_asset_accounts(signer, mint) IN
       /\ asset_config' =
            IF err = Ok
            THEN [asset_config EXCEPT ![mint].is_supported = FALSE]
            ELSE asset_config
       /\ last_call' = Outcome("remove_supported_asset",
            [signer |-> signer, mint |-> mint],
            err,
            <<[name |-> "AssetRemoved", mint |-> mint]>>, <<>>)
    /\ UNCHANGED <<program, contract_state, contract_token_account,
                   deposit_contract, pda, balances>>

\* #[derive(Accounts)] UpdateLendingProtocolAddress
dc_update_lending_protocol_address_accounts(signer) ==
    IF dc_contract_state_account # Ok THEN dc_contract_state_account
    ELSE dc_has_one_authority(signer)

\* update_lending_protocol_address without its chain id check
update_ignoring_chain_id(expected_zeta_chain_id) == Ok

\* require_eq!(expected_zeta_chain_id, contract_state.zeta_chain_id, InvalidChainId)
dc_update_lending_protocol_address_handler(expected_zeta_chain_id) ==
    IF expected_zeta_chain_id # contract_state.zeta_chain_id
    THEN "InvalidChainId" ELSE Ok

\* update_lending_protocol_address storing the chain id it is given instead of
\* comparing it with the stored one
update_adopting_chain_id(signer, new_lending_protocol_address, expected_zeta_chain_id) ==
    /\ program = "deposit_contract"
    /\ LET err == dc_update_lending_protocol_address_accounts(signer) IN
       /\ contract_state' =
            IF err = Ok
            THEN [contract_state EXCEPT
                    !.lending_protocol_address = new_lending_protocol_address,
                    !.zeta_chain_id = expected_zeta_chain_id]
            ELSE contract_state
       /\ last_call' = Outcome("update_lending_protocol_address",
            [signer |-> signer,
             new_lending_protocol_address |-> new_lending_protocol_address,
             expected_zeta_chain_id |-> expected_zeta_chain_id],
            err,
            <<[name |-> "LendingProtocolAddressUpdated",
               old_address |-> contract_state.lending_protocol_address,
               new_address |-> new_lending_protocol_address,
               chain_id |-> expected_zeta_chain_id]>>, <<>>)
    /\ UNCHANGED <<program, asset_config, contract_token_account,
                   deposit_contract, pda, balances>>

dc_update_lending_protocol_address(signer, new_lending_protocol_address, expected_zeta_chain_id) ==
    /\ program = "deposit_contract"
    /\ LET acc == dc_update_lending_protocol_address_accounts(signer)
           err == IF acc # Ok THEN acc
                  ELSE dc_update_lending_protocol_address_handler(expected_zeta_chain_id)
       IN
       /\ contract_state' =
            IF err = Ok
            THEN [contract_state EXCEPT
                    !.lending_protocol_address = new_lending_protocol_address]
            ELSE contract_state
       /\ last_call' = Outcome("update_lending_protocol_address",
            [signer |-> signer,
             new_lending_protocol_address |-> new_lending_protocol_address,
             expected_zeta_chain_id |-> expected_zeta_chain_id],
            err,
            <<[name |-> "LendingProtocolAddressUpdated",
               old_address |-> contract_state.lending_protocol_address,
               new_address |-> new_lending_protocol_address,
               chain_id |-> contract_state.zeta_chain_id]>>, <<>>)
    /\ UNCHANGED <<program, asset_config, contract_token_account,
                   deposit_contract, pda, balances>>

\* SetPauseState as it would be if a paused contract refused every call,
\* set_pause_state included
set_pause_accounts_refusing_paused(signer) ==
    IF dc_contract_state_account # Ok THEN dc_contract_state_account
    ELSE IF contract_state.is_paused THEN "ContractPaused"
    ELSE dc_has_one_authority(signer)

\* #[derive(Accounts)] SetPauseState
dc_set_pause_state_accounts(signer) ==
    IF dc_contract_state_account # Ok THEN dc_contract_state_account
    ELSE dc_has_one_authority(signer)

\* set_pause_state emitting PauseStateChanged only when the value changes
set_pause_state_silent_when_same(signer, is_paused) ==
    /\ program = "deposit_contract"
    /\ LET err == dc_set_pause_state_accounts(signer) IN
       /\ contract_state' =
            IF err = Ok
            THEN [contract_state EXCEPT !.is_paused = is_paused]
            ELSE contract_state
       /\ last_call' = Outcome("set_pause_state",
            [signer |-> signer, is_paused |-> is_paused],
            err,
            IF err = Ok /\ contract_state.is_paused = is_paused THEN <<>>
            ELSE <<[name |-> "PauseStateChanged", is_paused |-> is_paused]>>,
            <<>>)
    /\ UNCHANGED <<program, asset_config, contract_token_account,
                   deposit_contract, pda, balances>>

dc_set_pause_state(signer, is_paused) ==
    /\ program = "deposit_contract"
    /\ LET err == dc_set_pause_state_accounts(signer) IN
       /\ contract_state' =
            IF err = Ok
            THEN [contract_state EXCEPT !.is_paused = is_paused]
            ELSE contract_state
       /\ last_call' = Outcome("set_pause_state",
            [signer |-> signer, is_paused |-> is_paused],
            err,
            <<[name |-> "PauseStateChanged", is_paused |-> is_paused]>>, <<>>)
    /\ UNCHANGED <<program, asset_config, contract_token_account,
                   deposit_contract, pda, balances>>

\* ---------------------------------------------------------------- gateway
\* invoke_gateway_deposit_and_call, invoke_gateway_deposit_spl_token_and_call and
\* invoke_gateway_call are placeholders: they build RevertOptions, log, make no CPI
\* and return Ok(()) unconditionally.  What is recorded is the adapter call itself:
\* which adapter, the amount announced, the receiver, and `held`: how much of that
\* amount the instruction had moved into contract custody when the adapter ran.
invoke_gateway_deposit_and_call(amount, receiver, held) ==
    [adapter |-> "deposit_and_call", amount |-> amount, receiver |-> receiver,
     held |-> held, on_revert_gas_limit |-> GAS_LIMIT]

invoke_gateway_deposit_spl_token_and_call(amount, receiver, held) ==
    [adapter |-> "deposit_spl_token_and_call", amount |-> amount,
     receiver |-> receiver, held |-> held, on_revert_gas_limit |-> GAS_LIMIT]

invoke_gateway_call(receiver) ==
    [adapter |-> "call", amount |-> 0, receiver |-> receiver, held |-> 0,
     on_revert_gas_limit |-> GAS_LIMIT]

\* token::transfer(from, to, amount): the SPL token program rejects an amount above
\* the source balance; a transfer from an account to itself changes nothing
TokenTransferErr(from, mint, amount) ==
    IF token_balance[from][mint] < amount THEN "InsufficientFunds" ELSE Ok

TokenTransfer(from, to, mint, amount) ==
    IF from = to THEN token_balance
    ELSE [token_balance EXCEPT ![from][mint] = @ - amount,
                               ![to][mint] = @ + amount]

\* what the contract's token account of `mint` holds more in `after` than now
Received(after, mint) == after[CONTRACT][mint] - token_balance[CONTRACT][mint]

\* system_program::transfer(from, to, amount)
SystemTransferErr(from, amount) ==
    IF lamports[from] < amount THEN "InsufficientFunds" ELSE Ok

SystemTransfer(from, to, amount) ==
    [lamports EXCEPT ![from] = @ - amount, ![to] = @ + amount]

\* ------------------------------------------------- deposit_sol / repay_sol
\* #[derive(Accounts)] DepositSol / RepaySol / BorrowCrossChain / WithdrawCrossChain
dc_user_accounts == dc_contract_state_account

\* deposit_sol without its pause check
deposit_sol_ignoring_pause(amount) ==
    IF ~(amount > 0) THEN "InvalidAmount"
    ELSE IF ~(amount >= DEPOSIT_FEE) THEN "InsufficientDepositFee"
    ELSE Ok

\* deposit_sol without its fee floor
deposit_sol_without_fee_floor(amount) ==
    IF contract_state.is_paused THEN "ContractPaused"
    ELSE IF ~(amount > 0) THEN "InvalidAmount"
    ELSE Ok

\* the require! lines of deposit_sol and of repay_sol
dc_deposit_sol_handler(amount) ==
    IF contract_state.is_paused THEN "ContractPaused"
    ELSE IF ~(amount > 0) THEN "InvalidAmount"
    ELSE IF ~(amount >= DEPOSIT_FEE) THEN "InsufficientDepositFee"
    ELSE Ok

dc_repay_sol_handler(amount) ==
    IF contract_state.is_paused THEN "ContractPaused"
    ELSE IF ~(amount > 0) THEN "InvalidAmount"
    ELSE IF ~(amount >= DEPOSIT_FEE) THEN "InsufficientDepositFee"
    ELSE Ok

\* deposit_sol makes no system_program::transfer: it only calls the adapter
dc_deposit_sol(user, amount, on_behalf_of) ==
    /\ program = "deposit_contract"
    /\ LET acc == dc_user_accounts
           err == IF acc # Ok THEN acc ELSE dc_deposit_sol_handler(amount)
       IN last_call' = Outcome("deposit_sol",
            [user |-> user, amount |-> amount, on_behalf_of |-> on_behalf_of],
            err,
            <<[name |-> "DepositInitiated", user |-> user, asset |-> NATIVE_SOL,
               amount |-> amount, on_behalf_of |-> on_behalf_of]>>,
            <<invoke_gateway_deposit_and_call(
                amount, contract_state.lending_protocol_address, 0)>>)
    /\ UNCHANGED <<program, dc_accounts, deposit_contract, pda, balances>>

dc_repay_sol(user, amount, on_behalf_of) ==
    /\ program = "deposit_contract"
    /\ LET acc == dc_user_accounts
           err == IF acc # Ok THEN acc ELSE dc_repay_sol_handler(amount)
       IN last_call' = Outcome("repay_sol",
            [user |-> user, amount |-> amount, on_behalf_of |-> on_behalf_of],
            err,
            <<[name |-> "RepayInitiated", user |-> user, asset |-> NATIVE_SOL,
               amount |-> amount, on_behalf_of |-> on_behalf_of]>>,
            <<invoke_gateway_deposit_and_call(
                amount, contract_state.lending_protocol_address, 0)>>)
    /\ UNCHANGED <<program, dc_accounts, deposit_contract, pda, balances>>

\* ------------------------------------- deposit_spl_token / repay_spl_token
\* #[derive(Accounts)] DepositSplToken: contract_state and asset_config are
\* deserialized, then contract_token_account is init (it must not exist yet)
dc_deposit_spl_token_accounts(mint) ==
    IF dc_contract_state_account # Ok THEN dc_contract_state_account
    ELSE IF asset_config[mint] = NoAccount THEN "AccountNotInitialized"
    ELSE IF mint \in contract_token_account THEN "AccountAlreadyInUse"
    ELSE Ok

\* #[derive(Accounts)] RepaySplToken: contract_token_account is mut (it must exist)
dc_repay_spl_token_accounts(mint) ==
    IF dc_contract_state_account # Ok THEN dc_contract_state_account
    ELSE IF asset_config[mint] = NoAccount THEN "AccountNotInitialized"
    ELSE IF mint \notin contract_token_account THEN "AccountNotInitialized"
    ELSE Ok

\* deposit_spl_token looking at the registry entry before the amount
deposit_spl_token_support_first(user, mint, amount) ==
    IF contract_state.is_paused THEN "ContractPaused"
    ELSE IF ~asset_config[mint].is_supported THEN "UnsupportedAsset"
    ELSE IF ~(amount > 0) THEN "InvalidAmount"
    ELSE IF asset_config[mint].is_native THEN "UseDepositSol"
    ELSE TokenTransferErr(user, mint, amount)

\* the require! lines of deposit_spl_token, then its token::transfer
dc_deposit_spl_token_handler(user, mint, amount) ==
    IF contract_state.is_paused THEN "ContractPaused"
    ELSE IF ~(amount > 0) THEN "InvalidAmount"
    ELSE IF ~asset_config[mint].is_supported THEN "UnsupportedAsset"
    ELSE IF asset_config[mint].is_native THEN "UseDepositSol"
    ELSE TokenTransferErr(user, mint, amount)

dc_repay_spl_token_handler(user, mint, amount) ==
    IF contract_state.is_paused THEN "ContractPaused"
    ELSE IF ~(amount > 0) THEN "InvalidAmount"
    ELSE IF ~asset_config[mint].is_supported THEN "UnsupportedAsset"
    ELSE IF asset_config[mint].is_native THEN "UseRepaySol"
    ELSE TokenTransferErr(user, mint, amount)

dc_deposit_spl_token(user, mint, amount, on_behalf_of) ==
    /\ program = "deposit_contract"
    /\ LET acc == dc_deposit_spl_token_accounts(mint)
           err == IF acc # Ok THEN acc
                  ELSE dc_deposit_spl_token_handler(user, mint, amount)
       IN
       /\ token_balance' = IF err = Ok
                           THEN TokenTransfer(user, CONTRACT, mint, amount)
                           ELSE token_balance
       /\ contract_token_account' = IF err = Ok
                                    THEN contract_token_account \cup {mint}
                                    ELSE contract_token_account
       /\ last_call' = Outcome("deposit_spl_token",
            [user |-> user, mint |-> mint, amount |-> amount,
             on_behalf_of |-> on_behalf_of],
            err,
            <<[name |-> "DepositInitiated", user |-> user, asset |-> mint,
               amount |-> amount, on_behalf_of |-> on_behalf_of]>>,
            <<invoke_gateway_deposit_spl_token_and_call(
                amount, contract_state.lending_protocol_address,
                Received(TokenTransfer(user, CONTRACT, mint, amount), mint))>>)
    /\ UNCHANGED <<program, contract_state, asset_config, deposit_contract,
                   pda, lamports>>

dc_repay_spl_token(user, mint, amount, on_behalf_of) ==
    /\ program = "deposit_contract"
    /\ LET acc == dc_repay_spl_token_accounts(mint)
           err == IF acc # Ok THEN acc
                  ELSE dc_repay_spl_token_handler(user, mint, amount)
       IN
       /\ token_balance' = IF err = Ok
                           THEN TokenTransfer(user, CONTRACT, mint, amount)
                           ELSE token_balance
       /\ last_call' = Outcome("repay_spl_token",
            [user |-> user, mint |-> mint, amount |-> amount,
             on_behalf_of |-> on_behalf_of],
            err,
            <<[name |-> "RepayInitiated", user |-> user, asset |-> mint,
               amount |-> amount, on_behalf_of |-> on_behalf_of]>>,
            <<invoke_gateway_deposit_spl_token_and_call(
                amount, contract_state.lending_protocol_address,
                Received(TokenTransfer(user, CONTRACT, mint, amount), mint))>>)
    /\ UNCHANGED <<program, dc_accounts, deposit_contract, pda, lamports>>

\* ------------------------------- borrow_cross_chain / withdraw_cross_chain
dc_borrow_cross_chain_handler(amount) ==
    IF contract_state.is_paused THEN "ContractPaused"
    ELSE IF ~(amount > 0) THEN "InvalidAmount"
    ELSE Ok

dc_withdraw_cross_chain_handler(amount) ==
    IF contract_state.is_paused THEN "ContractPaused"
    ELSE IF ~(amount > 0) THEN "InvalidAmount"
    ELSE Ok

dc_borrow_cross_chain(user, asset, amount, destination_chain, recipient) ==
    /\ program = "deposit_contract"
    /\ LET acc == dc_user_accounts
           err == IF acc # Ok THEN acc ELSE dc_borrow_cross_chain_handler(amount)
       IN last_call' = Outcome("borrow_cross_chain",
            [user |-> user, asset |-> asset, amount |-> amount,
             destination_chain |-> destination_chain,
             recipient |-> recipient],
            err,
            <<[name |-> "BorrowCrossChainInitiated", user |-> user,
               asset |-> asset, amount |-> amount,
               destination_chain |-> destination_chain, recipient |-> recipient]>>,
            <<invoke_gateway_call(contract_state.lending_protocol_address)>>)
    /\ UNCHANGED <<program, dc_accounts, deposit_contract, pda, balances>>

dc_withdraw_cross_chain(user, asset, amount, destination_chain, recipient) ==
    /\ program = "deposit_contract"
    /\ LET acc == dc_user_accounts
           err == IF acc # Ok THEN acc ELSE dc_withdraw_cross_chain_handler(amount)
       IN last_call' = Outcome("withdraw_cross_chain",
            [user |-> user, asset |-> asset, amount |-> amount,
             destination_chain |-> destination_chain,
             recipient |-> recipient],
            err,
            <<[name |-> "WithdrawCrossChainInitiated", user |-> user,
               asset |-> asset, amount |-> amount,
               destination_chain |-> destination_chain, recipient |-> recipient]>>,
            <<invoke_gateway_call(contract_state.lending_protocol_address)>>)
    /\ UNCHANGED <<program, dc_accounts, deposit_contract, pda, balances>>

\* ======================================================================
\* connected program, secure variant (lending-zeta-solana-sui)
\* ======================================================================
\* DepositContract.supported_assets is a [SupportedAsset; 32] of which only the
\* slots 0 .. asset_count-1 are ever read; the model keeps those slots, as a
\* sequence (slot i of the array is element i+1).

\* Account<'info, DepositContract> of every instruction but initialize
sc_deposit_contract_account ==
    IF deposit_contract = NoAccount THEN "AccountNotInitialized" ELSE Ok

\* constraint = deposit_contract.authority == authority.key(), with no custom error
sc_authority_constraint(signer) ==
    IF deposit_contract.authority # signer THEN "ConstraintRaw" ELSE Ok

\* #[derive(Accounts)] AddSupportedAsset / RemoveSupportedAsset /
\* UpdateLendingProtocolAddress
sc_authority_accounts(signer) ==
    IF sc_deposit_contract_account # Ok THEN sc_deposit_contract_account
    ELSE sc_authority_constraint(signer)

\* #[derive(Accounts)] Initialize: deposit_contract is init
sc_initialize_accounts ==
    IF deposit_contract # NoAccount THEN "AccountAlreadyInUse" ELSE Ok

sc_initialize(authority, lending_protocol_address, zeta_chain_id) ==
    /\ program = "connected_secure"
    /\ LET err == sc_initialize_accounts IN
       /\ deposit_contract' =
            IF err = Ok
            THEN [authority |-> authority,
                  lending_protocol_address |-> lending_protocol_address,
                  zeta_chain_id |-> zeta_chain_id,
                  supported_assets |-> <<>>,
                  asset_count |-> 0]
            ELSE deposit_contract
       /\ last_call' = Outcome("initialize",
            [authority |-> authority,
             lending_protocol_address |-> lending_protocol_address,
             zeta_chain_id |-> zeta_chain_id],
            err, <<>>, <<>>)
    /\ UNCHANGED <<program, dc_accounts, pda, balances>>

\* add_supported_asset without its capacity check
add_without_capacity_check == Ok

sc_add_supported_asset_handler ==
    IF ~(deposit_contract.asset_count < MAX_SUPPORTED_ASSETS)
    THEN "MaxAssetsReached" ELSE Ok

sc_add_supported_asset(signer, asset_mint, decimals, is_native) ==
    /\ program = "connected_secure"
    /\ LET acc == sc_authority_accounts(signer)
           err == IF acc # Ok THEN acc ELSE sc_add_supported_asset_handler
       IN
       /\ deposit_contract' =
            IF err = Ok
            THEN [deposit_contract EXCEPT
                    !.supported_assets = Append(@,
                        [mint |-> asset_mint, is_supported |-> TRUE,
                         decimals |-> decimals, is_native |-> is_native]),
                    !.asset_count = @ + 1]
            ELSE deposit_contract
       /\ last_call' = Outcome("add_supported_asset",
            [signer |-> signer, asset_mint |-> asset_mint,
             decimals |-> decimals, is_native |-> is_native],
            err,
            <<[name |-> "AssetAdded", asset |-> asset_mint,
               decimals |-> decimals, is_native |-> is_native]>>, <<>>)
    /\ UNCHANGED <<program, dc_accounts, pda, balances>>

\* add_supported_asset while the registry holds fewer than MaxAssets entries
sc_add_supported_asset_bounded(signer, asset_mint, decimals, is_native) ==
    /\ deposit_contract # NoAccount => deposit_contract.asset_count < MaxAssets
    /\ sc_add_supported_asset(signer, asset_mint, decimals, is_native)

\* a scan that keeps the last slot whose mint is asset_mint (no break)
found_index_last_match(asset_mint) ==
    LET a == deposit_contract.supported_assets
        hits == {i \in 1..deposit_contract.asset_count : a[i].mint = asset_mint}
    IN IF hits = {} THEN 0 ELSE CHOOSE i \in hits : \A j \in hits : i >= j

\* the scan of remove_supported_asset: the first slot whose mint is asset_mint,
\* 0 when there is none
sc_found_index(asset_mint) ==
    LET a == deposit_contract.supported_assets
        hits == {i \in 1..deposit_contract.asset_count : a[i].mint = asset_mint}
    IN IF hits = {} THEN 0 ELSE CHOOSE i \in hits : \A j \in hits : i <= j

\* remove_supported_asset without require!(found_index.is_some(), ..)
remove_without_lookup(asset_mint) == Ok

sc_remove_supported_asset_handler(asset_mint) ==
    IF sc_found_index(asset_mint) = 0 THEN "AssetNotSupported" ELSE Ok

\* move the last element to the removed position, then asset_count -= 1
sc_swap_remove(index) ==
    LET a == deposit_contract.supported_assets
        n == deposit_contract.asset_count
        moved == IF index < n THEN [a EXCEPT ![index] = a[n]] ELSE a
    IN SubSeq(moved, 1, n - 1)

sc_remove_supported_asset(signer, asset_mint) ==
    /\ program = "connected_secure"
    /\ LET acc == sc_authority_accounts(signer)
           err == IF acc # Ok THEN acc
                  ELSE sc_remove_supported_asset_handler(asset_mint)
       IN
       /\ deposit_contract' =
            IF err = Ok
            THEN [deposit_contract EXCEPT
                    !.supported_assets = sc_swap_remove(sc_found_index(asset_mint)),
                    !.asset_count = @ - 1]
            ELSE deposit_contract
       /\ last_call' = Outcome("remove_supported_asset",
            [signer |-> signer, asset_mint |-> asset_mint],
            err,
            <<[name |-> "AssetRemoved", asset |-> asset_mint]>>, <<>>)
    /\ UNCHANGED <<program, dc_accounts, pda, balances>>

sc_update_lending_protocol_address_handler(expected_chain_id) ==
    IF expected_chain_id # deposit_contract.zeta_chain_id
    THEN "InvalidChainId" ELSE Ok

\* update_lending_protocol_address reading old_address after the assignment
update_reporting_new_as_old(signer, new_address, expected_chain_id) ==
    /\ program = "connected_secure"
    /\ LET acc == sc_authority_accounts(signer)
           err == IF acc # Ok THEN acc
                  ELSE sc_update_lending_protocol_address_handler(expected_chain_id)
       IN
       /\ deposit_contract' =
            IF err = Ok
            THEN [deposit_contract EXCEPT !.lending_protocol_address = new_address]
            ELSE deposit_contract
       /\ last_call' = Outcome("update_lending_protocol_address",
            [signer |-> signer, new_address |-> new_address,
             expected_chain_id |-> expected_chain_id],
            err,
            <<[name |-> "LendingProtocolAddressUpdated",
               old_address |-> new_address,
               new_address |-> new_address,
               chain_id |-> deposit_contract.zeta_chain_id]>>, <<>>)
    /\ UNCHANGED <<program, dc_accounts, pda, balances>>

sc_update_lending_protocol_address(signer, new_address, expected_chain_id) ==
    /\ program = "connected_secure"
    /\ LET acc == sc_authority_accounts(signer)
           err == IF acc # Ok THEN acc
                  ELSE sc_update_lending_protocol_address_handler(expected_chain_id)
       IN
       /\ deposit_contract' =
            IF err = Ok
            THEN [deposit_contract EXCEPT !.lending_protocol_address = new_address]
            ELSE deposit_contract
       /\ last_call' = Outcome("update_lending_protocol_address",
            [signer |-> signer, new_address |-> new_address,
             expected_chain_id |-> expected_chain_id],
            err,
            <<[name |-> "LendingProtocolAddressUpdated",
               old_address |-> deposit_contract.lending_protocol_address,
               new_address |-> new_address,
               chain_id |-> deposit_contract.zeta_chain_id]>>, <<>>)
    /\ UNCHANGED <<program, dc_accounts, pda, balances>>

\* ------------------------------------------------ registry scans (secure)
\* the loop of deposit_sol and repay_sol: is there a live slot for SOL
sc_sol_is_supported ==
    \E i \in 1..deposit_contract.asset_count :
        LET asset == deposit_contract.supported_assets[i] IN
        asset.mint = NATIVE_SOL /\ asset.is_native /\ asset.is_supported

\* the loop of deposit_token and repay_token
sc_token_is_supported(asset_mint) ==
    \E i \in 1..deposit_contract.asset_count :
        LET asset == deposit_contract.supported_assets[i] IN
        asset.mint = asset_mint /\ ~asset.is_native /\ asset.is_supported

\* #[derive(Accounts)] DepositSol / RepaySol / BorrowCrossChain / WithdrawCrossChain
sc_user_accounts == sc_deposit_contract_account

\* #[derive(Accounts)] DepositToken / RepayToken:
\* constraint = depositor_token_account.amount > 0 @ ErrorCode::InsufficientBalance.
\* contract_token_account is only constrained to be of the same mint.
sc_token_accounts(user, mint) ==
    IF sc_deposit_contract_account # Ok THEN sc_deposit_contract_account
    ELSE IF ~(token_balance[user][mint] > 0) THEN "InsufficientBalance"
    ELSE Ok

sc_deposit_sol_handler(depositor, amount) ==
    IF ~(amount > 0) THEN "InvalidAmount"
    ELSE IF ~sc_sol_is_supported THEN "AssetNotSupported"
    ELSE SystemTransferErr(depositor, amount)

sc_repay_sol_handler(repayer, amount) ==
    IF ~(amount > 0) THEN "InvalidAmount"
    ELSE IF ~sc_sol_is_supported THEN "AssetNotSupported"
    ELSE SystemTransferErr(repayer, amount)

\* deposit_token without its amount check
deposit_token_ignoring_amount(depositor, mint, amount) ==
    IF ~sc_token_is_supported(mint) THEN "AssetNotSupported"
    ELSE TokenTransferErr(depositor, mint, amount)

sc_deposit_token_handler(depositor, mint, amount) ==
    IF ~(amount > 0) THEN "InvalidAmount"
    ELSE IF ~sc_token_is_supported(mint) THEN "AssetNotSupported"
    ELSE TokenTransferErr(depositor, mint, amount)

sc_repay_token_handler(repayer, mint, amount) ==
    IF ~(amount > 0) THEN "InvalidAmount"
    ELSE IF ~sc_token_is_supported(mint) THEN "AssetNotSupported"
    ELSE TokenTransferErr(repayer, mint, amount)

\* the secure program encodes the message and emits the event; it never calls a
\* gateway ("Here we would call the gateway ... For now, we just log the action")
sc_deposit_sol(depositor, amount, on_behalf_of) ==
    /\ program = "connected_secure"
    /\ LET acc == sc_user_accounts
           err == IF acc # Ok THEN acc ELSE sc_deposit_sol_handler(depositor, amount)
       IN
       /\ lamports' = IF err = Ok THEN SystemTransfer(depositor, CONTRACT, amount)
                      ELSE lamports
       /\ last_call' = Outcome("deposit_sol",
            [depositor |-> depositor, amount |-> amount,
             on_behalf_of |-> on_behalf_of],
            err,
            <<[name |-> "DepositInitiated", user |-> depositor,
               asset |-> NATIVE_SOL, amount |-> amount,
               on_behalf_of |-> on_behalf_of]>>, <<>>)
    /\ UNCHANGED <<program, dc_accounts, deposit_contract, pda, token_balance>>

sc_repay_sol(repayer, amount, on_behalf_of) ==
    /\ program = "connected_secure"
    /\ LET acc == sc_user_accounts
           err == IF acc # Ok THEN acc ELSE sc_repay_sol_handler(repayer, amount)
       IN
       /\ lamports' = IF err = Ok THEN SystemTransfer(repayer, CONTRACT, amount)
                      ELSE lamports
       /\ last_call' = Outcome("repay_sol",
            [repayer |-> repayer, amount |-> amount,
             on_behalf_of |-> on_behalf_of],
            err,
            <<[name |-> "RepayInitiated", user |-> repayer,
               asset |-> NATIVE_SOL, amount |-> amount,
               on_behalf_of |-> on_behalf_of]>>, <<>>)
    /\ UNCHANGED <<program, dc_accounts, deposit_contract, pda, token_balance>>

\* `to` is the holder of the token account passed as contract_token_account
sc_deposit_token(depositor, mint, to, amount, on_behalf_of) ==
    /\ program = "connected_secure"
    /\ LET acc == sc_token_accounts(depositor, mint)
           err == IF acc # Ok THEN acc
                  ELSE sc_deposit_token_handler(depositor, mint, amount)
       IN
       /\ token_balance' = IF err = Ok
                           THEN TokenTransfer(depositor, to, mint, amount)
                           ELSE token_balance
       /\ last_call' = Outcome("deposit_token",
            [depositor |-> depositor, mint |-> mint, to |-> to,
             amount |-> amount, on_behalf_of |-> on_behalf_of],
            err,
            <<[name |-> "DepositInitiated", user |-> depositor, asset |-> mint,
               amount |-> amount, on_behalf_of |-> on_behalf_of]>>, <<>>)
    /\ UNCHANGED <<program, dc_accounts, deposit_contract, pda, lamports>>

sc_repay_token(repayer, mint, to, amount, on_behalf_of) ==
    /\ program = "connected_secure"
    /\ LET acc == sc_token_accounts(repayer, mint)
           err == IF acc # Ok THEN acc
                  ELSE sc_repay_token_handler(repayer, mint, amount)
       IN
       /\ token_balance' = IF err = Ok
                           THEN TokenTransfer(repayer, to, mint, amount)
                           ELSE token_balance
       /\ last_call' = Outcome("repay_token",
            [repayer |-> repayer, mint |-> mint, to |-> to, amount |-> amount,
             on_behalf_of |-> on_behalf_of],
            err,
            <<[name |-> "RepayInitiated", user |-> repayer, asset |-> mint,
               amount |-> amount, on_behalf_of |-> on_behalf_of]>>, <<>>)
    /\ UNCHANGED <<program, dc_accounts, deposit_contract, pda, lamports>>

sc_borrow_cross_chain_handler(amount) ==
    IF ~(amount > 0) THEN "InvalidAmount" ELSE Ok

sc_withdraw_cross_chain_handler(amount) ==
    IF ~(amount > 0) THEN "InvalidAmount" ELSE Ok

sc_borrow_cross_chain(borrower, asset, amount, destination_chain, recipient) ==
    /\ program = "connected_secure"
    /\ LET acc == sc_user_accounts
           err == IF acc # Ok THEN acc ELSE sc_borrow_cross_chain_handler(amount)
       IN last_call' = Outcome("borrow_cross_chain",
            [borrower |-> borrower, asset |-> asset, amount |-> amount,
             destination_chain |-> destination_chain,
             recipient |-> recipient],
            err,
            <<[name |-> "BorrowCrossChainInitiated", user |-> borrower,
               asset |-> asset, amount |-> amount,
               destination_chain |-> destination_chain, recipient |-> recipient]>>,
            <<>>)
    /\ UNCHANGED <<program, dc_accounts, deposit_contract, pda, balances>>

sc_withdraw_cross_chain(withdrawer, asset, amount, destination_chain, recipient) ==
    /\ program = "connected_secure"
    /\ LET acc == sc_user_accounts
           err == IF acc # Ok THEN acc ELSE sc_withdraw_cross_chain_handler(amount)
       IN last_call' = Outcome("withdraw_cross_chain",
            [withdrawer |-> withdrawer, asset |-> asset, amount |-> amount,
             destination_chain |-> destination_chain,
             recipient |-> recipient],
            err,
            <<[name |-> "WithdrawCrossChainInitiated", user |-> withdrawer,
               asset |-> asset, amount |-> amount,
               destination_chain |-> destination_chain, recipient |-> recipient]>>,
            <<>>)
    /\ UNCHANGED <<program, dc_accounts, deposit_contract, pda, balances>>

\* ======================================================================
\* inbound calls: on_call of both connected programs
\* ======================================================================
\* String::from_utf8: is the byte sequence well-formed UTF-8
RECURSIVE IsUtf8(_)
IsCont(b) == b >= 128 /\ b <= 191
IsUtf8(d) ==
    IF d = <<>> THEN TRUE
    ELSE LET b == d[1]
             n == Len(d)
             rest(k) == SubSeq(d, k + 1, n)
         IN IF b <= 127 THEN IsUtf8(rest(1))
            ELSE IF b >= 194 /\ b <= 223
                 THEN n >= 2 /\ IsCont(d[2]) /\ IsUtf8(rest(2))
            ELSE IF b >= 224 /\ b <= 239
                 THEN /\ n >= 3
                      /\ d[2] >= (IF b = 224 THEN 160 ELSE 128)
                      /\ d[2] <= (IF b = 237 THEN 159 ELSE 191)
                      /\ IsCont(d[3])
                      /\ IsUtf8(rest(3))
            ELSE IF b >= 240 /\ b <= 244
                 THEN /\ n >= 4
                      /\ d[2] >= (IF b = 240 THEN 144 ELSE 128)
                      /\ d[2] <= (IF b = 244 THEN 143 ELSE 191)
                      /\ IsCont(d[3]) /\ IsCont(d[4])
                      /\ IsUtf8(rest(4))
            ELSE FALSE

\* inbound payloads: empty, "sol", and an ill-formed one
Payloads == {<<>>, <<115, 111, 108>>, <<255>>}
\* accounts a caller may pass as gateway_pda
Pubkeys == {ZETACHAIN_GATEWAY_PROGRAM_ID, "mallory"}
\* accounts a caller may pass as tss_signer
Signers == {TSS_AUTHORITY, "mallory"}

\* #[derive(Accounts)] OnCall: pda is an Account<'info, Pda>
on_call_accounts ==
    IF pda = NoAccount THEN "AccountNotInitialized" ELSE Ok

\* verify_tss_signature without the comparison of the signer with TSS_AUTHORITY
verify_any_signer(message, tss_signer) ==
    IF message = <<>> THEN "InvalidMessage" ELSE Ok

\* verify_tss_signature without require!(!message.is_empty(), ..)
verify_signer_only(message, tss_signer) ==
    IF tss_signer # TSS_AUTHORITY THEN "UnauthorizedTssAuthority" ELSE Ok

\* verify_tss_signature; signature is a [u8; 64], so signature.len() == 64 holds
verify_tss_signature(message, tss_signer) ==
    IF tss_signer # TSS_AUTHORITY THEN "UnauthorizedTssAuthority"
    ELSE IF message = <<>> THEN "InvalidMessage"
    ELSE Ok

\* the secure on_call storing the payload without decoding it
on_call_without_decoding(gateway_pda, tss_signer, data) ==
    IF gateway_pda # ZETACHAIN_GATEWAY_PROGRAM_ID THEN "UnauthorizedGateway"
    ELSE verify_tss_signature(data, tss_signer)

\* the secure on_call verifying the TSS signer before the gateway
on_call_tss_first(gateway_pda, tss_signer, data) ==
    IF verify_tss_signature(data, tss_signer) # Ok
    THEN verify_tss_signature(data, tss_signer)
    ELSE IF gateway_pda # ZETACHAIN_GATEWAY_PROGRAM_ID THEN "UnauthorizedGateway"
    ELSE IF ~IsUtf8(data) THEN "InvalidDataFormat"
    ELSE Ok

\* the checks of the secure on_call, in the order of the handler
sc_on_call_handler(gateway_pda, tss_signer, data) ==
    IF gateway_pda # ZETACHAIN_GATEWAY_PROGRAM_ID THEN "UnauthorizedGateway"
    ELSE IF verify_tss_signature(data, tss_signer) # Ok
         THEN verify_tss_signature(data, tss_signer)
    ELSE IF ~IsUtf8(data) THEN "InvalidDataFormat"
    ELSE Ok

\* on_call assigns pda.last_sender before it decodes the payload; the runtime
\* discards the account writes of an instruction that returns an error, so a
\* failed call leaves the Pda account as it was
sc_on_call(gateway_pda, tss_signer, amount, sender, data) ==
    /\ program = "connected_secure"
    /\ LET acc == on_call_accounts
           err == IF acc # Ok THEN acc
                  ELSE sc_on_call_handler(gateway_pda, tss_signer, data)
       IN
       /\ pda' = IF err = Ok
                 THEN [last_sender |-> sender, last_message |-> data]
                 ELSE pda
       /\ last_call' = Outcome("on_call",
            [gateway_pda |-> gateway_pda, tss_signer |-> tss_signer,
             amount |-> amount, sender |-> sender, data |-> data],
            err, <<>>, <<>>)
    /\ UNCHANGED <<program, dc_accounts, deposit_contract, balances>>

\* #[derive(Accounts)] Initialize of the example program: pda is init
ec_initialize_accounts ==
    IF pda # NoAccount THEN "AccountAlreadyInUse" ELSE Ok

ec_initialize(signer) ==
    /\ program = "connected_example"
    /\ LET err == ec_initialize_accounts IN
       /\ pda' = IF err = Ok
                 THEN [last_sender |-> Addr(0), last_message |-> <<>>]
                 ELSE pda
       /\ last_call' = Outcome("initialize",
            [signer |-> signer],
            err, <<>>, <<>>)
    /\ UNCHANGED <<program, dc_accounts, deposit_contract, balances>>

\* the example on_call compares gateway_pda with nothing (/// CHECK: Test contract)
ec_on_call_handler(gateway_pda, data) ==
    IF ~IsUtf8(data) THEN "InvalidDataFormat" ELSE Ok

\* the example on_call as it would be if the write of last_sender, made before
\* the payload is decoded, survived a failed call
on_call_without_rollback(gateway_pda, amount, sender, data) ==
    /\ program = "connected_example"
    /\ LET acc == on_call_accounts
           err == IF acc # Ok THEN acc ELSE ec_on_call_handler(gateway_pda, data)
       IN
       /\ pda' = IF err = Ok
                 THEN [last_sender |-> sender, last_message |-> data]
                 ELSE IF acc = Ok THEN [pda EXCEPT !.last_sender = sender]
                 ELSE pda
       /\ last_call' = Outcome("on_call",
            [gateway_pda |-> gateway_pda, amount |-> amount, sender |-> sender,
             data |-> data],
            err, <<>>, <<>>)
    /\ UNCHANGED <<program, dc_accounts, deposit_contract, balances>>

ec_on_call(gateway_pda, amount, sender, data) ==
    /\ program = "connected_example"
    /\ LET acc == on_call_accounts
           err == IF acc # Ok THEN acc ELSE ec_on_call_handler(gateway_pda, data)
       IN
       /\ pda' = IF err = Ok
                 THEN [last_sender |-> sender, last_message |-> data]
                 ELSE pda
       /\ last_call' = Outcome("on_call",
            [gateway_pda |-> gateway_pda, amount |-> amount, sender |-> sender,
             data |-> data],
            err, <<>>, <<>>)
    /\ UNCHANGED <<program, dc_accounts, deposit_contract, balances>>

\* ======================================================================
\* specification
\* ======================================================================
Assets20 == {Addr(3)}
ScAssetKeys == {FundedMint, NATIVE_SOL}
\* the amount of an inbound call is only logged
CallAmounts == {AmountStep}

Next ==
    \/ \E a \in Deployers, l \in Beneficiaries, c \in InitChainIds :
          dc_initialize(a, l, c)
    \/ \E s \in Users, m \in Mints, d \in Decimals, n \in BOOLEAN :
          dc_add_supported_asset(s, m, d, n)
    \/ \E s \in Users, m \in Mints : dc_remove_supported_asset(s, m)
    \/ \E s \in Users, l \in NewAddresses, c \in ChainIds :
          dc_update_lending_protocol_address(s, l, c)
    \/ \E s \in Users, p \in BOOLEAN : dc_set_pause_state(s, p)
    \/ \E u \in Users, x \in Amounts, b \in Beneficiaries : dc_deposit_sol(u, x, b)
    \/ \E u \in {Funded}, x \in Amounts, b \in Beneficiaries : dc_repay_sol(u, x, b)
    \/ \E u \in Users, m \in Mints, x \in Amounts, b \in Beneficiaries :
          dc_deposit_spl_token(u, m, x, b)
    \/ \E u \in {Funded}, m \in Mints, x \in Amounts, b \in Beneficiaries :
          dc_repay_spl_token(u, m, x, b)
    \/ \E u \in {Funded}, a \in Assets20, x \in RelayAmounts, c \in DestChains,
          r \in Beneficiaries : dc_borrow_cross_chain(u, a, x, c, r)
    \/ \E u \in {Funded}, a \in Assets20, x \in RelayAmounts, c \in DestChains,
          r \in Beneficiaries : dc_withdraw_cross_chain(u, a, x, c, r)
    \/ \E a \in Deployers, l \in Beneficiaries, c \in InitChainIds :
          sc_initialize(a, l, c)
    \/ \E s \in Users, m \in ScAssetKeys, d \in Decimals, n \in BOOLEAN :
          sc_add_supported_asset_bounded(s, m, d, n)
    \/ \E s \in Users, m \in ScAssetKeys : sc_remove_supported_asset(s, m)
    \/ \E s \in Users, l \in NewAddresses, c \in ChainIds :
          sc_update_lending_protocol_address(s, l, c)
    \/ \E u \in Users, x \in Amounts, b \in Beneficiaries : sc_deposit_sol(u, x, b)
    \/ \E u \in {Funded}, x \in Amounts, b \in Beneficiaries : sc_repay_sol(u, x, b)
    \/ \E u \in Users, m \in {FundedMint}, x \in Amounts, b \in Beneficiaries :
          \E t \in {CONTRACT, u} : sc_deposit_token(u, m, t, x, b)
    \/ \E u \in {Funded}, m \in {FundedMint}, x \in Amounts, b \in Beneficiaries :
          \E t \in {CONTRACT, u} : sc_repay_token(u, m, t, x, b)
    \/ \E u \in {Funded}, a \in {FundedMint}, x \in RelayAmounts, c \in DestChains,
          r \in Beneficiaries : sc_borrow_cross_chain(u, a, x, c, r)
    \/ \E u \in {Funded}, a \in {FundedMint}, x \in RelayAmounts, c \in DestChains,
          r \in Beneficiaries : sc_withdraw_cross_chain(u, a, x, c, r)
    \/ \E g \in Pubkeys, t \in Signers, x \in CallAmounts, s \in Beneficiaries,
          d \in Payloads : sc_on_call(g, t, x, s, d)
    \/ \E s \in Users : ec_initialize(s)
    \/ \E g \in Pubkeys, x \in CallAmounts, s \in Beneficiaries, d \in Payloads :
          ec_on_call(g, x, s, d)

Spec == Init /\ [][Next]_vars

\* ======================================================================
\* legacy message encoders of deposit_contract
\* ======================================================================
\* [0u8; n]
Zeros(n) == [i \in 1..n |-> 0]

\* u32::to_be_bytes
to_be_bytes(x) ==
    <<(x \div 16777216) % 256, (x \div 65536) % 256, (x \div 256) % 256, x % 256>>

\* let mut evm_address = [0u8; 32]; evm_address[12..32].copy_from_slice(..)
evm_address(on_behalf_of) ==
    [i \in 1..32 |-> IF i <= 12 THEN 0 ELSE on_behalf_of[i - 12]]

\* Vec::resize(new_len, value)
resize(v, new_len, value) ==
    IF Len(v) >= new_len THEN SubSeq(v, 1, new_len)
    ELSE v \o [i \in 1..(new_len - Len(v)) |-> value]

\* b"supply", b"repay"
SUPPLY == <<115, 117, 112, 112, 108, 121>>
REPAY == <<114, 101, 112, 97, 121>>

\* create_supply_message writing the address at the front of its word
supply_message_left_aligned(on_behalf_of) ==
    resize(Zeros(28) \o to_be_bytes(64) \o on_behalf_of \o Zeros(12)
           \o Zeros(28) \o to_be_bytes(6) \o SUPPLY \o Zeros(26), 128, 0)

create_supply_message(on_behalf_of) ==
    resize(Zeros(28) \o to_be_bytes(64) \o evm_address(on_behalf_of)
           \o Zeros(28) \o to_be_bytes(6) \o SUPPLY \o Zeros(26), 128, 0)

\* create_repay_message writing the length and the bytes of b"supply"
repay_message_tagged_supply(on_behalf_of) ==
    resize(Zeros(28) \o to_be_bytes(64) \o evm_address(on_behalf_of)
           \o Zeros(28) \o to_be_bytes(6) \o SUPPLY \o Zeros(26), 128, 0)

create_repay_message(on_behalf_of) ==
    resize(Zeros(28) \o to_be_bytes(64) \o evm_address(on_behalf_of)
           \o Zeros(28) \o to_be_bytes(5) \o REPAY \o Zeros(27), 128, 0)

\* beneficiaries offered to the encoders: byte b at every position, and runs
\* b + s, b + 2s, .. (mod 256) that tell the positions apart
ByteSamples == {(k * 17) % 256 : k \in 0..(MaxByteSamples - 1)}
Strides == {0, 1, 13}
EncodedAddresses ==
    {[i \in 1..20 |-> (b + s * i) % 256] : b \in ByteSamples, s \in Strides}

\* the outcome of a call of an encoder: the bytes it returned
Encoded(op, on_behalf_of, message) ==
    [op |-> op, args |-> [on_behalf_of |-> on_behalf_of], err |-> Ok,
     events |-> <<>>, submits |-> <<>>, message |-> message]

encode_supply(on_behalf_of) ==
    /\ last_call' = Encoded("create_supply_message", on_behalf_of,
                            create_supply_message(on_behalf_of))
    /\ UNCHANGED <<program, dc_accounts, deposit_contract, pda, balances>>

encode_repay(on_behalf_of) ==
    /\ last_call' = Encoded("create_repay_message", on_behalf_of,
                            create_repay_message(on_behalf_of))
    /\ UNCHANGED <<program, dc_accounts, deposit_contract, pda, balances>>

InitEncoders == Init /\ program = "deposit_contract"

NextEncoders ==
    \/ \E b \in EncodedAddresses : encode_supply(b)
    \/ \E b \in EncodedAddresses : encode_repay(b)

SpecEncoders == InitEncoders /\ [][NextEncoders]_vars

\* ======================================================================
\* typed (Borsh) messages of the secure connected program
\* ======================================================================
\* the n low bytes of x, most significant first
RECURSIVE be_bytes(_, _)
be_bytes(x, n) ==
    IF n = 0 THEN <<>> ELSE be_bytes(x \div 256, n - 1) \o <<x % 256>>

\* u64::to_le_bytes / i64::to_le_bytes as Borsh writes them: n bytes, least
\* significant first, two's complement
RECURSIVE le_bytes(_, _)
le_bytes(x, n) ==
    IF n = 0 THEN <<>> ELSE <<x % 256>> \o le_bytes(x \div 256, n - 1)

\* u64::from_le_bytes
RECURSIVE u64_from_le_bytes(_)
u64_from_le_bytes(b) ==
    IF b = <<>> THEN 0 ELSE b[1] + 256 * u64_from_le_bytes(Tail(b))

\* i64::from_le_bytes
RECURSIVE i64_from_le_bytes(_)
i64_from_le_bytes(b) ==
    IF Len(b) = 1 THEN (IF b[1] >= 128 THEN b[1] - 256 ELSE b[1])
    ELSE b[1] + 256 * i64_from_le_bytes(Tail(b))

\* let mut action = [0u8; 16]; action[..copy_len].copy_from_slice(&name[..copy_len])
\* with copy_len = min(name.len(), 16)
copy_action(name) ==
    [i \in 1..16 |-> IF i <= Len(name) THEN name[i] ELSE 0]

\* b"borrowCrossChain", b"withdrawCrossChain"
BORROW_CROSS_CHAIN ==
    <<98, 111, 114, 114, 111, 119, 67, 114, 111, 115, 115, 67, 104, 97, 105, 110>>
WITHDRAW_CROSS_CHAIN ==
    <<119, 105, 116, 104, 100, 114, 97, 119, 67, 114, 111, 115, 115, 67, 104, 97,
      105, 110>>

\* SupplyMessage / RepayMessage { action, on_behalf_of, amount, timestamp }
\* .try_to_vec(): Borsh writes the fields in declaration order, arrays as their
\* bytes, integers little-endian
encode_supply_message(on_behalf_of, amount, unix_timestamp) ==
    copy_action(SUPPLY) \o on_behalf_of \o le_bytes(amount, 8)
        \o le_bytes(unix_timestamp, 8)

encode_repay_message(on_behalf_of, amount, unix_timestamp) ==
    copy_action(REPAY) \o on_behalf_of \o le_bytes(amount, 8)
        \o le_bytes(unix_timestamp, 8)

\* BorrowCrossChainMessage / WithdrawCrossChainMessage
\* { action, user, amount, destination_chain, recipient, timestamp }
encode_borrow_cross_chain_message(user, amount, destination_chain, recipient, unix_timestamp) ==
    copy_action(BORROW_CROSS_CHAIN) \o user \o le_bytes(amount, 8)
        \o le_bytes(destination_chain, 8) \o recipient
        \o le_bytes(unix_timestamp, 8)

\* the withdraw encoder given the name b"borrowCrossChain"
encode_withdraw_under_borrow_name(user, amount, destination_chain, recipient, unix_timestamp) ==
    copy_action(BORROW_CROSS_CHAIN) \o user \o le_bytes(amount, 8)
        \o le_bytes(destination_chain, 8) \o recipient
        \o le_bytes(unix_timestamp, 8)

encode_withdraw_cross_chain_message(user, amount, destination_chain, recipient, unix_timestamp) ==
    copy_action(WITHDRAW_CROSS_CHAIN) \o user \o le_bytes(amount, 8)
        \o le_bytes(destination_chain, 8) \o recipient
        \o le_bytes(unix_timestamp, 8)

\* #[derive(BorshDeserialize)] try_from_slice: the fields are read in order, a
\* read past the end of the input is an error, and so are bytes left over.
\* No field is compared with anything: the action is read like any other array.
SUPPLY_MESSAGE_LEN == 52
CROSS_CHAIN_MESSAGE_LEN == 92

try_from_slice_len(v, len) ==
    IF Len(v) < len THEN "UnexpectedLengthOfInput"
    ELSE IF Len(v) > len THEN "NotAllBytesRead"
    ELSE Ok

\* SupplyMessage::try_from_slice and RepayMessage::try_from_slice
SupplyMessage_try_from_slice(v) ==
    LET err == try_from_slice_len(v, SUPPLY_MESSAGE_LEN) IN
    IF err # Ok THEN [err |-> err]
    ELSE [err |-> Ok,
          action |-> SubSeq(v, 1, 16),
          on_behalf_of |-> SubSeq(v, 17, 36),
          amount |-> u64_from_le_bytes(SubSeq(v, 37, 44)),
          timestamp |-> i64_from_le_bytes(SubSeq(v, 45, 52))]

RepayMessage_try_from_slice(v) == SupplyMessage_try_from_slice(v)

\* BorrowCrossChainMessage::try_from_slice and
\* WithdrawCrossChainMessage::try_from_slice
BorrowCrossChainMessage_try_from_slice(v) ==
    LET err == try_from_slice_len(v, CROSS_CHAIN_MESSAGE_LEN) IN
    IF err # Ok THEN [err |-> err]
    ELSE [err |-> Ok,
          action |-> SubSeq(v, 1, 16),
          user |-> SubSeq(v, 17, 48),
          amount |-> u64_from_le_bytes(SubSeq(v, 49, 56)),
          destination_chain |-> u64_from_le_bytes(SubSeq(v, 57, 64)),
          recipient |-> SubSeq(v, 65, 84),
          timestamp |-> i64_from_le_bytes(SubSeq(v, 85, 92))]

WithdrawCrossChainMessage_try_from_slice(v) ==
    BorrowCrossChainMessage_try_from_slice(v)

\* ------------------------------------------------------------ input sets
\* amounts written into messages: those offered to the entry points, and
\* values that fill one, two, three and four bytes
MessageAmounts == Amounts \cup {1, 255, 256, 65535, 16777216, 2147483647}
\* Clock::get()?.unix_timestamp
Timestamps == {0, 1700000000}
MessageChains == {421614, 11155111}
\* beneficiaries and recipients: distinct bytes at every position
MessageAddresses == {[i \in 1..20 |-> (b + i) % 256] : b \in {0, 200}}
\* user keys: 32 bytes, distinct at every position
MessageKeys == {[i \in 1..32 |-> (b + 7 * i) % 256] : b \in {1, 130}}

\* an action name no encoder writes: b"bogus"
BOGUS == <<98, 111, 103, 117, 115>>

\* buffers offered to the decoders: well-formed messages of both sizes, the same
\* under a foreign action, cut short, and with a byte too many
WellFormed ==
    {encode_supply_message(b, 1, 0) : b \in MessageAddresses}
    \cup {encode_repay_message(b, 256, 1700000000) : b \in MessageAddresses}
    \cup {encode_borrow_cross_chain_message(u, 255, 421614, r, 0) :
            u \in MessageKeys, r \in MessageAddresses}
    \cup {encode_withdraw_cross_chain_message(u, 65535, 11155111, r, 1700000000) :
            u \in MessageKeys, r \in MessageAddresses}

Rebadged(m) == copy_action(BOGUS) \o SubSeq(m, 17, Len(m))

Buffers ==
    WellFormed
    \cup {Rebadged(m) : m \in WellFormed}
    \cup {SubSeq(m, 1, Len(m) - 1) : m \in WellFormed}
    \cup {SubSeq(m, 1, 15) : m \in WellFormed}
    \cup {m \o <<0>> : m \in WellFormed}
    \cup {<<>>}

\* the outcome of a call of an encoder: the bytes it returned
EncodedTyped(op, args, message) ==
    [op |-> op, args |-> args, err |-> Ok, events |-> <<>>, submits |-> <<>>,
     message |-> message]

\* the outcome of a call of a decoder: the error or the struct it returned
Decoded(op, v, result) ==
    [op |-> op, args |-> [v |-> v], err |-> result.err, events |-> <<>>,
     submits |-> <<>>, decoded |-> result]

typed_frame == UNCHANGED <<program, dc_accounts, deposit_contract, pda, balances>>

sc_encode_supply(on_behalf_of, amount, unix_timestamp) ==
    /\ last_call' = EncodedTyped("encode_supply_message",
            [on_behalf_of |-> on_behalf_of, amount |-> amount,
             unix_timestamp |-> unix_timestamp],
            encode_supply_message(on_behalf_of, amount, unix_timestamp))
    /\ typed_frame

sc_encode_repay(on_behalf_of, amount, unix_timestamp) ==
    /\ last_call' = EncodedTyped("encode_repay_message",
            [on_behalf_of |-> on_behalf_of, amount |-> amount,
             unix_timestamp |-> unix_timestamp],
            encode_repay_message(on_behalf_of, amount, unix_timestamp))
    /\ typed_frame

sc_encode_borrow_cross_chain(user, amount, destination_chain, recipient, unix_timestamp) ==
    /\ last_call' = EncodedTyped("encode_borrow_cross_chain_message",
            [user |-> user, amount |-> amount,
             destination_chain |-> destination_chain, recipient |-> recipient,
             unix_timestamp |-> unix_timestamp],
            encode_borrow_cross_chain_message(
                user, amount, destination_chain, recipient, unix_timestamp))
    /\ typed_frame

sc_encode_withdraw_cross_chain(user, amount, destination_chain, recipient, unix_timestamp) ==
    /\ last_call' = EncodedTyped("encode_withdraw_cross_chain_message",
            [user |-> user, amount |-> amount,
             destination_chain |-> destination_chain, recipient |-> recipient,
             unix_timestamp |-> unix_timestamp],
            encode_withdraw_cross_chain_message(
                user, amount, destination_chain, recipient, unix_timestamp))
    /\ typed_frame

sc_decode_supply(v) ==
    /\ last_call' = Decoded("SupplyMessage::try_from_slice", v,
                            SupplyMessage_try_from_slice(v))
    /\ typed_frame

sc_decode_repay(v) ==
    /\ last_call' = Decoded("RepayMessage::try_from_slice", v,
                            RepayMessage_try_from_slice(v))
    /\ typed_frame

sc_decode_borrow_cross_chain(v) ==
    /\ last_call' = Decoded("BorrowCrossChainMessage::try_from_slice", v,
                            BorrowCrossChainMessage_try_from_slice(v))
    /\ typed_frame

sc_decode_withdraw_cross_chain(v) ==
    /\ last_call' = Decoded("WithdrawCrossChainMessage::try_from_slice", v,
                            WithdrawCrossChainMessage_try_from_slice(v))
    /\ typed_frame

InitTyped == Init /\ program = "connected_secure"

NextTyped ==
    \/ \E b \in MessageAddresses, x \in MessageAmounts, t \in Timestamps :
          sc_encode_supply(b, x, t)
    \/ \E b \in MessageAddresses, x \in MessageAmounts, t \in Timestamps :
          sc_encode_repay(b, x, t)
    \/ \E u \in MessageKeys, x \in MessageAmounts, c \in MessageChains,
          r \in MessageAddresses, t \in Timestamps :
          sc_encode_borrow_cross_chain(u, x, c, r, t)
    \/ \E u \in MessageKeys, x \in MessageAmounts, c \in MessageChains,
          r \in MessageAddresses, t \in Timestamps :
          sc_encode_withdraw_cross_chain(u, x, c, r, t)
    \/ \E v \in Buffers : sc_decode_supply(v)
    \/ \E v \in Buffers : sc_decode_repay(v)
    \/ \E v \in Buffers : sc_decode_borrow_cross_chain(v)
    \/ \E v \in Buffers : sc_decode_withdraw_cross_chain(v)

SpecTyped == InitTyped /\ [][NextTyped]_vars

\* ======================================================================
\* chain identifiers offered to deposit_contract
\* ======================================================================
\* the ZetaChain networks (mainnet, testnet) and the destination chains
\* (Arbitrum Sepolia, Ethereum Sepolia) the test suite names as supported, and
\* the identifier it uses as an unsupported one
SupportedZetaChains == {7000, 7001}
SupportedDestinationChains == {421614, 11155111}
UnsupportedChain == 1

InitChains == Init /\ program = "deposit_contract"

NextChains ==
    \/ \E a \in Deployers, l \in Beneficiaries,
          c \in SupportedZetaChains \cup {UnsupportedChain} :
          dc_initialize(a, l, c)
    \/ \E s \in Users, p \in BOOLEAN : dc_set_pause_state(s, p)
    \/ \E u \in Users, a \in Assets20, x \in RelayAmounts,
          c \in SupportedDestinationChains \cup {UnsupportedChain},
          r \in Beneficiaries : dc_borrow_cross_chain(u, a, x, c, r)
    \/ \E u \in Users, a \in Assets20, x \in RelayAmounts,
          c \in SupportedDestinationChains \cup {UnsupportedChain},
          r \in Beneficiaries : dc_withdraw_cross_chain(u, a, x, c, r)

SpecChains == InitChains /\ [][NextChains]_vars

\* ======================================================================
\* the registry of the secure connected program up to its capacity
\* ======================================================================
\* one asset is added again and again (add_supported_asset does not look for an
\* existing entry), so that the registry can fill all its slots
InitRegistry == Init /\ program = "connected_secure"

NextRegistry ==
    \/ \E a \in Deployers, l \in Beneficiaries, c \in InitChainIds :
          sc_initialize(a, l, c)
    \/ \E s \in Users, d \in Decimals :
          sc_add_supported_asset(s, FundedMint, d, FALSE)
    \/ \E s \in Users, m \in ScAssetKeys : sc_remove_supported_asset(s, m)

SpecRegistry == InitRegistry /\ [][NextRegistry]_vars

\* ======================================================================
\* removals from a registry of the secure connected program that holds several
\* entries, entries of the same mint among them
\* ======================================================================
MaxRegistry == 3
RegistryMints == Mints \cup {NATIVE_SOL}

\* add_supported_asset while the registry holds fewer than MaxRegistry entries
sc_add_supported_asset_to_few(signer, asset_mint, decimals, is_native) ==
    /\ deposit_contract # NoAccount => deposit_contract.asset_count < MaxRegistry
    /\ sc_add_supported_asset(signer, asset_mint, decimals, is_native)

InitRemoval == Init /\ program = "connected_secure"

NextRemoval ==
    \/ \E a \in Deployers, l \in Beneficiaries, c \in InitChainIds :
          sc_initialize(a, l, c)
    \/ \E s \in Users, m \in RegistryMints, d \in Decimals, n \in BOOLEAN :
          sc_add_supported_asset_to_few(s, m, d, n)
    \/ \E s \in Users, m \in RegistryMints : sc_remove_supported_asset(s, m)

SpecRemoval == InitRemoval /\ [][NextRemoval]_vars

\* ======================================================================
\* the legacy messages built by the deposit and repay entry points of
\* deposit_contract
\* ======================================================================
\* Each action is the line `let message = create_.._message(on_behalf_of)?` of
\* an entry point, with the arguments the entry point was called with. The
\* require! lines before it are left out, so that messages are built for more
\* calls and in more contract states than the program builds them for.
\* beneficiaries that differ in every byte, in the first byte only and in the
\* last byte only
LegacyBeneficiaries ==
    {Addr(2), Addr(3), [Addr(2) EXCEPT ![1] = 3], [Addr(2) EXCEPT ![20] = 3]}

dc_deposit_sol_message(user, amount, on_behalf_of) ==
    /\ last_call' = EncodedTyped("deposit_sol",
            [user |-> user, amount |-> amount, on_behalf_of |-> on_behalf_of],
            create_supply_message(on_behalf_of))
    /\ UNCHANGED <<program, dc_accounts, deposit_contract, pda, balances>>

dc_deposit_spl_token_message(user, mint, amount, on_behalf_of) ==
    /\ last_call' = EncodedTyped("deposit_spl_token",
            [user |-> user, mint |-> mint, amount |-> amount,
             on_behalf_of |-> on_behalf_of],
            create_supply_message(on_behalf_of))
    /\ UNCHANGED <<program, dc_accounts, deposit_contract, pda, balances>>

dc_repay_sol_message(user, amount, on_behalf_of) ==
    /\ last_call' = EncodedTyped("repay_sol",
            [user |-> user, amount |-> amount, on_behalf_of |-> on_behalf_of],
            create_repay_message(on_behalf_of))
    /\ UNCHANGED <<program, dc_accounts, deposit_contract, pda, balances>>

dc_repay_spl_token_message(user, mint, amount, on_behalf_of) ==
    /\ last_call' = EncodedTyped("repay_spl_token",
            [user |-> user, mint |-> mint, amount |-> amount,
             on_behalf_of |-> on_behalf_of],
            create_repay_message(on_behalf_of))
    /\ UNCHANGED <<program, dc_accounts, deposit_contract, pda, balances>>

InitMessages == Init /\ program = "deposit_contract"

NextMessages ==
    \/ \E a \in Deployers, l \in Beneficiaries, c \in InitChainIds :
          dc_initialize(a, l, c)
    \/ \E s \in Deployers, p \in BOOLEAN : dc_set_pause_state(s, p)
    \/ \E u \in Users, x \in Amounts, b \in LegacyBeneficiaries :
          dc_deposit_sol_message(u, x, b)
    \/ \E u \in Users, m \in Mints, x \in Amounts, b \in LegacyBeneficiaries :
          dc_deposit_spl_token_message(u, m, x, b)
    \/ \E u \in Users, x \in Amounts, b \in LegacyBeneficiaries :
          dc_repay_sol_message(u, x, b)
    \/ \E u \in Users, m \in Mints, x \in Amounts, b \in LegacyBeneficiaries :
          dc_repay_spl_token_message(u, m, x, b)

SpecMessages == InitMessages /\ [][NextMessages]_vars

\* ======================================================================
\* properties
\* ======================================================================
\* In the action properties below last_call' is the instruction a step executes
\* (its name, arguments and outcome); unprimed variables are the state it is
\* executed in.
DepositOps == {"deposit_sol", "deposit_spl_token", "deposit_token"}
RepayOps == {"repay_sol", "repay_spl_token", "repay_token"}
NativeOps == {"deposit_sol", "repay_sol"}
TokenOps == (DepositOps \cup RepayOps) \ NativeOps
CrossChainOps == {"borrow_cross_chain", "withdraw_cross_chain"}
AmountOps == DepositOps \cup RepayOps \cup CrossChainOps
\* the keys that are a gateway program of either deployment
Gateways == {ZETACHAIN_GATEWAY_PROGRAM_ID, GATEWAY_PROGRAM_ID}

IsDc == program = "deposit_contract"
IsSc == program = "connected_secure"
DcPaused == contract_state # NoAccount /\ contract_state.is_paused

\* the signer of a user-facing call c
Caller(c) ==
    CASE "user" \in DOMAIN c.args -> c.args.user
      [] "depositor" \in DOMAIN c.args -> c.args.depositor
      [] "repayer" \in DOMAIN c.args -> c.args.repayer
      [] "borrower" \in DOMAIN c.args -> c.args.borrower
      [] "withdrawer" \in DOMAIN c.args -> c.args.withdrawer

\* the asset a deposit or repay call c is about
AssetOf(c) == IF c.op \in NativeOps THEN NATIVE_SOL ELSE c.args.mint

\* the result of validating, in the current state, the accounts of the
\* user-facing call that the step executes
CallAccounts ==
    LET c == last_call' IN
    CASE IsDc /\ c.op \in NativeOps \cup CrossChainOps -> dc_user_accounts
      [] IsDc /\ c.op = "deposit_spl_token" ->
            dc_deposit_spl_token_accounts(c.args.mint)
      [] IsDc /\ c.op = "repay_spl_token" ->
            dc_repay_spl_token_accounts(c.args.mint)
      [] IsSc /\ c.op \in NativeOps \cup CrossChainOps -> sc_user_accounts
      [] IsSc /\ c.op \in TokenOps -> sc_token_accounts(Caller(c), c.args.mint)

\* ---------------------------------------------------------------------- C1
\* C1: an on_call whose gateway account is not the configured gateway identity
\* fails with UnauthorizedGateway and leaves the mailbox (last_sender,
\* last_message) unchanged, in the secure and in the example connected program,
\* for every sender, payload and prior mailbox content.
C1_UntrustedGatewayRejected ==
    [][(/\ last_call'.op = "on_call"
        /\ pda # NoAccount
        /\ last_call'.args.gateway_pda \notin Gateways) =>
            (last_call'.err = "UnauthorizedGateway" /\ pda' = pda)]_vars

\* ---------------------------------------------------------------------- C3
\* C3: transfer-then-notify: whenever a value-bearing call invokes the gateway
\* adapter with amount A, exactly A of the asset has been moved into contract
\* custody by that call.
C3_TransferThenNotify ==
    [][\A i \in DOMAIN last_call'.submits :
         LET s == last_call'.submits[i]
             asset == AssetOf(last_call')
         IN /\ s.adapter = "deposit_and_call" =>
                 /\ s.held = s.amount
                 /\ lamports'[CONTRACT] - lamports[CONTRACT] = s.amount
            /\ s.adapter = "deposit_spl_token_and_call" =>
                 /\ s.held = s.amount
                 /\ token_balance'[CONTRACT][asset] - token_balance[CONTRACT][asset]
                      = s.amount]_vars

\* ---------------------------------------------------------------------- C4
\* exactly `amount` of `asset` leaves `user` and arrives in contract custody
Moved(user, asset, amount) ==
    IF asset = NATIVE_SOL
    THEN /\ lamports' = [lamports EXCEPT ![user] = @ - amount,
                                         ![CONTRACT] = @ + amount]
         /\ UNCHANGED token_balance
    ELSE /\ token_balance' = [token_balance EXCEPT ![user][asset] = @ - amount,
                                                   ![CONTRACT][asset] = @ + amount]
         /\ UNCHANGED lamports

\* C4: a successful deposit or repay moves exactly `amount` from the caller to
\* the contract and emits exactly one DepositInitiated / RepayInitiated event
\* carrying {user, asset, amount, beneficiary}; a failed one changes no balance,
\* configuration or registry and emits nothing.
C4_DepositMovesAmount ==
    [][last_call'.op \in DepositOps \cup RepayOps =>
         LET c == last_call' IN
         IF c.err = Ok
         THEN /\ c.events =
                   <<[name |-> IF c.op \in DepositOps
                               THEN "DepositInitiated" ELSE "RepayInitiated",
                      user |-> Caller(c), asset |-> AssetOf(c),
                      amount |-> c.args.amount,
                      on_behalf_of |-> c.args.on_behalf_of]>>
              /\ Moved(Caller(c), AssetOf(c), c.args.amount)
         ELSE /\ c.events = <<>>
              /\ UNCHANGED <<balances, dc_accounts, deposit_contract>>]_vars

\* ---------------------------------------------------------------------- C5
\* C5: every successful deposit, repay, borrow_cross_chain or
\* withdraw_cross_chain submits to the gateway exactly once.
C5_SubmitsExactlyOnce ==
    (last_call.op \in AmountOps /\ last_call.err = Ok) =>
        Len(last_call.submits) = 1

\* ---------------------------------------------------------------------- C2
\* the entry points of deposit_contract that move value or relay a message
PausableOps == {"deposit_sol", "deposit_spl_token", "repay_sol",
                "repay_spl_token", "borrow_cross_chain", "withdraw_cross_chain"}

\* C2: while is_paused is true, deposit_sol, deposit_spl_token, repay_sol,
\* repay_spl_token, borrow_cross_chain and withdraw_cross_chain fail for all
\* arguments with no custody transfer, no gateway submission and no event, and
\* the error they return is ContractPaused.  (The secure connected program has
\* no is_paused field: the condition never holds there.)
C2_PausedRejects ==
    [][(IsDc /\ DcPaused /\ last_call'.op \in PausableOps) =>
         /\ last_call'.err # Ok
         /\ last_call'.events = <<>>
         /\ last_call'.submits = <<>>
         /\ UNCHANGED <<balances, dc_accounts>>
         /\ CallAccounts = Ok => last_call'.err = "ContractPaused"]_vars

\* a token deposit with a positive amount was rejected by the pause check
C2_PausedDepositSeen ==
    /\ DcPaused
    /\ last_call.op = "deposit_spl_token"
    /\ last_call.args.amount > 0
    /\ last_call.err = "ContractPaused"

\* ---------------------------------------------------------------------- C6
GatedOps == {"add_supported_asset", "remove_supported_asset",
             "update_lending_protocol_address", "set_pause_state"}

\* the configuration account of the deployed program
Config == IF IsDc THEN contract_state ELSE deposit_contract

\* the accounts of a gated call other than the signer are in place: the
\* configuration exists and, in deposit_contract, the AssetConfig account of an
\* add does not exist yet and that of a remove does
GatedAccountsInPlace ==
    LET c == last_call' IN
    /\ (IsDc \/ IsSc)
    /\ Config # NoAccount
    /\ (IsDc /\ c.op = "add_supported_asset") =>
          asset_config[c.args.mint] = NoAccount
    /\ (IsDc /\ c.op = "remove_supported_asset") =>
          asset_config[c.args.mint] # NoAccount

\* C6: add_supported_asset, remove_supported_asset,
\* update_lending_protocol_address and set_pause_state called by an identity
\* other than the stored authority fail with Unauthorized and leave the
\* configuration and the asset registry unchanged.
C6_NonAuthorityUnauthorized ==
    [][(/\ last_call'.op \in GatedOps
        /\ GatedAccountsInPlace
        /\ last_call'.args.signer # Config.authority) =>
            /\ last_call'.err = "Unauthorized"
            /\ UNCHANGED <<dc_accounts, deposit_contract>>]_vars

\* ---------------------------------------------------------------------- C7
\* the expected chain id argument of an update_lending_protocol_address call
ExpectedChainId(c) ==
    IF IsDc THEN c.args.expected_zeta_chain_id ELSE c.args.expected_chain_id

\* C7: update_lending_protocol_address with an expected chain id different from
\* the stored zeta_chain_id fails and leaves lending_protocol_address unchanged,
\* for every new address; called by the authority it fails with InvalidChainId.
\* Both programs.
C7_ChainIdMismatchRejected ==
    [][(/\ last_call'.op = "update_lending_protocol_address"
        /\ Config # NoAccount
        /\ ExpectedChainId(last_call') # Config.zeta_chain_id) =>
            /\ last_call'.err # Ok
            /\ Config'.lending_protocol_address = Config.lending_protocol_address
            /\ last_call'.args.signer = Config.authority =>
                  last_call'.err = "InvalidChainId"]_vars

\* the authority's update to a new address was rejected for its chain id
C7_MismatchSeen ==
    /\ IsDc
    /\ contract_state # NoAccount
    /\ last_call.op = "update_lending_protocol_address"
    /\ last_call.args.signer = contract_state.authority
    /\ last_call.args.expected_zeta_chain_id # contract_state.zeta_chain_id
    /\ last_call.args.new_lending_protocol_address
         # contract_state.lending_protocol_address
    /\ last_call.err = "InvalidChainId"

\* ---------------------------------------------------------------------- C8
\* the step is a call with amount 0 of a value-moving or cross-chain entry point
ZeroAmountCall == last_call'.op \in AmountOps /\ last_call'.args.amount = 0

\* C8: every call with amount = 0 of a value-moving or cross-chain entry point
\* fails with InvalidAmount, and no custody transfer occurs.
C8_ZeroAmountInvalid ==
    [][(ZeroAmountCall /\ CallAccounts = Ok) =>
         /\ last_call'.err = "InvalidAmount"
         /\ UNCHANGED balances]_vars

\* C8 (amended): every call with amount = 0 fails with no custody transfer and
\* no event; it fails with InvalidAmount unless an earlier check rejects it: on
\* a paused deposit_contract every such call fails with ContractPaused.
C8_ZeroAmountRejected ==
    [][ZeroAmountCall =>
         /\ last_call'.err # Ok
         /\ last_call'.events = <<>>
         /\ UNCHANGED balances
         /\ CallAccounts = Ok =>
              last_call'.err = IF IsDc /\ DcPaused THEN "ContractPaused"
                               ELSE "InvalidAmount"]_vars

\* a zero token deposit of the secure program was rejected for its amount
C8_ZeroAmountSeen ==
    /\ IsSc
    /\ last_call.op = "deposit_token"
    /\ last_call.args.amount = 0
    /\ last_call.err = "InvalidAmount"

\* ---------------------------------------------------------------------- C9
\* the step is a deposit or repay with a positive amount that passes every
\* check the handler makes before it consults the registry: the accounts other
\* than the registry entry validate and, in deposit_contract, the contract is
\* not paused and a native amount covers DEPOSIT_FEE
ReachesRegistryCheck ==
    LET c == last_call' IN
    /\ c.op \in DepositOps \cup RepayOps
    /\ c.args.amount > 0
    /\ IsDc =>
          /\ contract_state # NoAccount
          /\ ~contract_state.is_paused
          /\ c.op \in NativeOps => c.args.amount >= DEPOSIT_FEE
          /\ c.op = "deposit_spl_token" => c.args.mint \notin contract_token_account
          /\ c.op = "repay_spl_token" => c.args.mint \in contract_token_account
    /\ IsSc => CallAccounts = Ok

\* the call got past the registry check: it succeeded, or failed only in the
\* transfer that follows the check
PassedRegistryCheck == last_call'.err \in {Ok, "InsufficientFunds"}

\* the registry holds an entry for `asset` that is supported and whose
\* is_native flag is `native`; deposit_contract keys its entries by mint only,
\* so there an entry for the native coin is any entry
HasEntry(asset, native) ==
    IF IsDc
    THEN \E m \in Mints :
            /\ asset \in {m, NATIVE_SOL}
            /\ asset_config[m] # NoAccount
            /\ asset_config[m].is_supported
            /\ asset_config[m].is_native = native
    ELSE \E i \in DOMAIN deposit_contract.supported_assets :
            LET e == deposit_contract.supported_assets[i] IN
            e.mint = asset /\ e.is_supported /\ e.is_native = native

\* C9: a deposit or repay passes the registry check if and only if a registry
\* entry for the asset exists with is_supported = true and is_native equal to
\* what the path expects (true for the native path, false for the token path).
C9_EligibleIffEntry ==
    [][ReachesRegistryCheck =>
         (PassedRegistryCheck <=>
            HasEntry(AssetOf(last_call'), last_call'.op \in NativeOps))]_vars

\* --------------------------------------------------------------------- C10
WrongPathErrors == {"UseDepositSol", "UseRepaySol"}

\* C10: when a supported entry exists for the asset but its is_native flag does
\* not match the entry point used (and no other entry of the asset matches),
\* the call fails with UseDepositSol / UseRepaySol, never AssetNotSupported.
\* (deposit_sol and repay_sol of deposit_contract name no asset.)
C10_WrongPathReported ==
    [][(/\ ReachesRegistryCheck
        /\ ~(IsDc /\ last_call'.op \in NativeOps)
        /\ HasEntry(AssetOf(last_call'), last_call'.op \notin NativeOps)
        /\ ~HasEntry(AssetOf(last_call'), last_call'.op \in NativeOps)) =>
            last_call'.err \in WrongPathErrors]_vars

\* --------------------------------------------------------------------- C11
\* the identifier a registry call c names
RegistryKey(c) == IF IsDc THEN c.args.mint ELSE c.args.asset_mint

\* the registry (configs, contract) holds an entry of `asset` with
\* is_supported = true
LiveEntryIn(configs, contract, asset) ==
    IF IsDc
    THEN asset \in Mints /\ configs[asset] # NoAccount
                         /\ configs[asset].is_supported
    ELSE \E i \in 1..contract.asset_count :
            LET e == contract.supported_assets[i] IN
            e.mint = asset /\ e.is_supported

LiveEntry(asset) == LiveEntryIn(asset_config, deposit_contract, asset)
LiveEntryAfter(asset) == LiveEntryIn(asset_config', deposit_contract', asset)

\* C11: after a successful remove_supported_asset of an identifier the registry
\* holds no live entry of it, only a successful add_supported_asset of the
\* identifier brings one back, and a deposit or repay of an identifier without
\* a live entry is rejected with no custody transfer and no event.  (deposit_sol
\* and repay_sol of deposit_contract name no identifier.)
C11_RemovedRejected ==
    [][/\ (last_call'.op = "remove_supported_asset" /\ last_call'.err = Ok) =>
            ~LiveEntryAfter(RegistryKey(last_call'))
       /\ (Config # NoAccount /\ last_call'.op # "add_supported_asset") =>
            \A a \in Mints \cup {NATIVE_SOL} : LiveEntryAfter(a) => LiveEntry(a)
       /\ (/\ last_call'.op \in DepositOps \cup RepayOps
           /\ ~(IsDc /\ last_call'.op \in NativeOps)
           /\ Config # NoAccount
           /\ ~LiveEntry(AssetOf(last_call'))) =>
              /\ last_call'.err # Ok
              /\ last_call'.events = <<>>
              /\ UNCHANGED balances]_vars

\* --------------------------------------------------------------------- C12
\* the registry holds an entry of `asset`, supported or not
Registered(asset) ==
    IF IsDc
    THEN asset \in Mints /\ asset_config[asset] # NoAccount
    ELSE \E i \in 1..deposit_contract.asset_count :
            deposit_contract.supported_assets[i].mint = asset

\* no two slots of the secure program's registry hold the same mint
\* (deposit_contract keeps one AssetConfig account per mint by construction)
OneEntryPerAssetIn(contract) ==
    \A i, j \in 1..contract.asset_count :
        contract.supported_assets[i].mint = contract.supported_assets[j].mint
            => i = j

\* C12: add_supported_asset of an identifier that is already registered fails
\* and leaves the registry unchanged, and after every call the registry holds at
\* most one entry per identifier.
C12_OneEntryPerAsset ==
    [][/\ (/\ last_call'.op = "add_supported_asset"
           /\ Config # NoAccount
           /\ Registered(RegistryKey(last_call'))) =>
              /\ last_call'.err # Ok
              /\ UNCHANGED <<asset_config, deposit_contract>>
       /\ (IsSc /\ deposit_contract' # NoAccount) =>
              OneEntryPerAssetIn(deposit_contract')]_vars

\* --------------------------------------------------------------------- C13
\* the registry entries whose is_native flag is set
NativeEntries ==
    IF IsDc
    THEN {m \in Mints : asset_config[m] # NoAccount /\ asset_config[m].is_native}
    ELSE IF IsSc /\ deposit_contract # NoAccount
    THEN {i \in 1..deposit_contract.asset_count :
            deposit_contract.supported_assets[i].is_native}
    ELSE {}

\* C13: in every reachable state the registry holds at most one entry with
\* is_native = true.
C13_NativeEntryUnique == Cardinality(NativeEntries) <= 1

\* --------------------------------------------------------------------- C14
\* big-endian value of bytes m[from + 1 .. from + 4]
BigEndian4(m, from) ==
    ((m[from + 1] * 256 + m[from + 2]) * 256 + m[from + 3]) * 256 + m[from + 4]

\* the 128-byte layout: offset 64, the beneficiary right-aligned in the second
\* word, the tag's length, the tag, zeros everywhere else
LegacyLayout(m, beneficiary, tag) ==
    /\ Len(m) = 128
    /\ \A i \in 1..28 : m[i] = 0
    /\ BigEndian4(m, 28) = 64
    /\ \A i \in 33..44 : m[i] = 0
    /\ \A i \in 1..20 : m[44 + i] = beneficiary[i]
    /\ \A i \in 65..92 : m[i] = 0
    /\ BigEndian4(m, 92) = Len(tag)
    /\ \A i \in 1..Len(tag) : m[96 + i] = tag[i]
    /\ \A i \in (96 + Len(tag) + 1)..128 : m[i] = 0
    /\ \A i \in 1..128 : m[i] \in 0..255

\* C14: for every 20-byte beneficiary the legacy supply message is 128 bytes:
\* 28 zeros, big-endian 64, 12 zeros, the beneficiary, 28 zeros, big-endian 6,
\* "supply", zeros; the legacy repay message has the same layout with length 5
\* and tag "repay".
C14_LegacyLayout ==
    /\ last_call.op = "create_supply_message" =>
          LegacyLayout(last_call.message, last_call.args.on_behalf_of, SUPPLY)
    /\ last_call.op = "create_repay_message" =>
          LegacyLayout(last_call.message, last_call.args.on_behalf_of, REPAY)

\* a supply message was built for a beneficiary whose bytes all differ from
\* their neighbours and from zero
C14_SupplyEncodedSeen ==
    /\ last_call.op = "create_supply_message"
    /\ last_call.args.on_behalf_of[1] = 18
    /\ last_call.args.on_behalf_of[20] = 37
    /\ last_call.message[45] = 18
    /\ last_call.message[64] = 37

\* --------------------------------------------------------------------- C15
\* C15: the first initialize of a deployment succeeds and stores the given
\* authority, lending_protocol_address and zeta_chain_id (with is_paused = false
\* where the program has the flag); the configuration account is never removed,
\* and every initialize after it fails and changes nothing.
C15_InitializeOnce ==
    [][/\ Config # NoAccount => Config' # NoAccount
       /\ (last_call'.op = "initialize" /\ (IsDc \/ IsSc)) =>
            LET c == last_call' IN
            IF Config = NoAccount
            THEN /\ c.err = Ok
                 /\ Config'.authority = c.args.authority
                 /\ Config'.lending_protocol_address
                      = c.args.lending_protocol_address
                 /\ Config'.zeta_chain_id = c.args.zeta_chain_id
                 /\ IsDc => Config'.is_paused = FALSE
            ELSE /\ c.err # Ok
                 /\ c.events = <<>>
                 /\ UNCHANGED <<dc_accounts, deposit_contract, pda, balances>>]_vars

\* a second initialize was rejected on a paused contract whose address had been
\* updated: had it run, it would have changed both fields
C15_SecondInitializeSeen ==
    /\ IsDc
    /\ last_call.op = "initialize"
    /\ last_call.err # Ok
    /\ contract_state # NoAccount
    /\ contract_state.is_paused
    /\ contract_state.lending_protocol_address
         # last_call.args.lending_protocol_address

\* --------------------------------------------------------------------- C16
\* the step is a deposit_sol of deposit_contract with 0 < amount < DEPOSIT_FEE
BelowFeeDeposit ==
    /\ IsDc
    /\ last_call'.op = "deposit_sol"
    /\ last_call'.args.amount > 0
    /\ last_call'.args.amount < DEPOSIT_FEE

C17_WrongTssSignerRejected ==
    [][(/\ IsSc
        /\ last_call'.op = "on_call"
        /\ pda # NoAccount
        /\ last_call'.args.gateway_pda = ZETACHAIN_GATEWAY_PROGRAM_ID
        /\ last_call'.args.tss_signer # TSS_AUTHORITY) =>
            /\ last_call'.err = "UnauthorizedTssAuthority"
            /\ pda' = pda]_vars

\* a well-formed payload from the trusted gateway was rejected for its signer
\* while the mailbox held another sender and message
C17_WrongTssSignerSeen ==
    /\ IsSc
    /\ last_call.op = "on_call"
    /\ last_call.args.gateway_pda = ZETACHAIN_GATEWAY_PROGRAM_ID
    /\ last_call.args.tss_signer # TSS_AUTHORITY
    /\ last_call.args.data = <<115, 111, 108>>
    /\ last_call.err = "UnauthorizedTssAuthority"
    /\ pda.last_sender # last_call.args.sender
    /\ pda.last_message # last_call.args.data

\* --------------------------------------------------------------------- C18
\* the step is an on_call that passes the authentication of its program: the
\* secure program wants the trusted gateway and the TSS authority, the example
\* program authenticates nothing
AuthenticatedOnCall ==
    /\ last_call'.op = "on_call"
    /\ pda # NoAccount
    /\ IsSc => /\ last_call'.args.gateway_pda = ZETACHAIN_GATEWAY_PROGRAM_ID
               /\ last_call'.args.tss_signer = TSS_AUTHORITY

\* C18: an authenticated on_call whose payload is not valid UTF-8 fails with
\* InvalidDataFormat, and last_sender and last_message keep the values they had
\* before the call, in the secure and in the example connected program.
C18_IllFormedPayloadRejected ==
    [][(AuthenticatedOnCall /\ ~IsUtf8(last_call'.args.data)) =>
          /\ last_call'.err = "InvalidDataFormat"
          /\ pda'.last_sender = pda.last_sender
          /\ pda'.last_message = pda.last_message]_vars

\* the secure program rejected an ill-formed payload of an authenticated call
\* whose sender differs from the one in the mailbox
C18_IllFormedPayloadSeen ==
    /\ IsSc
    /\ last_call.op = "on_call"
    /\ last_call.args.gateway_pda = ZETACHAIN_GATEWAY_PROGRAM_ID
    /\ last_call.args.tss_signer = TSS_AUTHORITY
    /\ ~IsUtf8(last_call.args.data)
    /\ last_call.err = "InvalidDataFormat"
    /\ pda.last_sender # last_call.args.sender

\* --------------------------------------------------------------------- C19
\* the condition, in the state the call is made in, under which an
\* administrative call of deposit_contract signed by the authority succeeds;
\* is_paused is no part of it
AdminCallAccepted(c) ==
    CASE c.op = "set_pause_state" -> TRUE
      [] c.op = "add_supported_asset" -> asset_config[c.args.mint] = NoAccount
      [] c.op = "remove_supported_asset" -> asset_config[c.args.mint] # NoAccount
      [] c.op = "update_lending_protocol_address" ->
            c.args.expected_zeta_chain_id = contract_state.zeta_chain_id

Unpause ==
    /\ IsDc /\ DcPaused
    /\ last_call'.op = "set_pause_state"
    /\ last_call'.args.signer = contract_state.authority
    /\ ~last_call'.args.is_paused

\* the step is a deposit of deposit_contract whose accounts validate, made on a
\* contract that is not paused: what a deposit rejected with ContractPaused is
\* when it is retried after the unpause, all other state being equal
DepositRetry ==
    /\ IsDc
    /\ contract_state # NoAccount
    /\ ~contract_state.is_paused
    /\ last_call'.op \in DepositOps
    /\ CallAccounts = Ok

\* the pause aside, nothing stands in the way of the deposit c: its amount is
\* positive, a native amount covers the fee floor, a token has a supported
\* non-native entry and the user holds the amount
DepositAcceptable(c) ==
    /\ c.args.amount > 0
    /\ IF c.op = "deposit_sol"
       THEN c.args.amount >= DEPOSIT_FEE
       ELSE /\ asset_config[c.args.mint].is_supported
            /\ ~asset_config[c.args.mint].is_native
            /\ token_balance[c.args.user][c.args.mint] >= c.args.amount

\* C20: from every paused state the authority's set_pause_state(false)
\* succeeds, and a deposit that failed with ContractPaused succeeds when it is
\* retried with the same arguments after the unpause.
C20_RetryAfterUnpauseSucceeds ==
    [][/\ Unpause => (last_call'.err = Ok /\ ~contract_state'.is_paused)
       /\ DepositRetry => last_call'.err = Ok]_vars

\* C20 (amended): from every paused state the authority's set_pause_state(false)
\* succeeds, clears is_paused and changes nothing else; a deposit made on a
\* paused contract fails with ContractPaused whatever its arguments, and retried
\* after the unpause it succeeds exactly when nothing but the pause stood in
\* its way.
C20_PauseReversible ==
    [][/\ Unpause =>
            /\ last_call'.err = Ok
            /\ contract_state' = [contract_state EXCEPT !.is_paused = FALSE]
            /\ UNCHANGED <<asset_config, contract_token_account, balances>>
       /\ (IsDc /\ DcPaused /\ last_call'.op \in DepositOps /\ CallAccounts = Ok)
            => last_call'.err = "ContractPaused"
       /\ DepositRetry =>
            (last_call'.err = Ok <=> DepositAcceptable(last_call'))]_vars

\* the authority's set_pause_state(false) has succeeded and left a contract that
\* is not paused, with a supported token entry whose deposit can be retried
C20_UnpausedSeen ==
    /\ IsDc
    /\ last_call.op = "set_pause_state"
    /\ last_call.err = Ok
    /\ ~last_call.args.is_paused
    /\ contract_state # NoAccount
    /\ last_call.args.signer = contract_state.authority
    /\ ~contract_state.is_paused
    /\ \E m \in DOMAIN asset_config :
          /\ asset_config[m] # NoAccount
          /\ asset_config[m].is_supported
          /\ ~asset_config[m].is_native
          /\ \E u \in DOMAIN token_balance : token_balance[u][m] > 0

\* --------------------------------------------------------------------- C21
\* C21: after a successful initialize, authority and zeta_chain_id never
\* change: initialize stores the values it is called with, and no later call,
\* successful or failed, by any caller, alters them or removes the
\* configuration.  Both programs.
C21_AuthorityAndChainFixed ==
    [][/\ (last_call'.op = "initialize" /\ last_call'.err = Ok /\ (IsDc \/ IsSc)) =>
            /\ Config' # NoAccount
            /\ Config'.authority = last_call'.args.authority
            /\ Config'.zeta_chain_id = last_call'.args.zeta_chain_id
       /\ Config # NoAccount =>
            /\ Config' # NoAccount
            /\ Config'.authority = Config.authority
            /\ Config'.zeta_chain_id = Config.zeta_chain_id]_vars

\* the authority has replaced the lending protocol address, and the
\* configuration still carries the identity and chain id of initialize
C21_UpdatedConfigSeen ==
    /\ IsDc
    /\ last_call.op = "update_lending_protocol_address"
    /\ last_call.err = Ok
    /\ contract_state # NoAccount
    /\ contract_state.lending_protocol_address \in NewAddresses
    /\ contract_state.lending_protocol_address \notin Beneficiaries
    /\ contract_state.authority \in Deployers
    /\ contract_state.zeta_chain_id \in InitChainIds

\* --------------------------------------------------------------------- C22
\* C22: remove_supported_asset of an identifier that has no registry entry
\* (the empty registry included) fails and leaves every registry entry and
\* asset_count unchanged, asset_count staying within 0..MAX_SUPPORTED_ASSETS;
\* signed by the authority it fails with AssetNotSupported in the secure
\* connected program, and in deposit_contract, where the entry is an account of
\* its own, with the framework's error for an account that does not exist.
C22_RemoveAbsentRejected ==
    [][(/\ last_call'.op = "remove_supported_asset"
        /\ Config # NoAccount
        /\ ~Registered(RegistryKey(last_call'))) =>
            /\ last_call'.err # Ok
            /\ last_call'.events = <<>>
            /\ UNCHANGED <<asset_config, deposit_contract>>
            /\ IsDc => last_call'.err = "AccountNotInitialized"
            /\ IsSc =>
                 /\ deposit_contract'.asset_count \in 0..MAX_SUPPORTED_ASSETS
                 /\ last_call'.args.signer = deposit_contract.authority =>
                       last_call'.err = "AssetNotSupported"]_vars

\* the authority's remove_supported_asset was rejected on an empty registry
C22_RemoveFromEmptySeen ==
    /\ IsSc
    /\ deposit_contract # NoAccount
    /\ deposit_contract.asset_count = 0
    /\ deposit_contract.supported_assets = <<>>
    /\ last_call.op = "remove_supported_asset"
    /\ last_call.args.signer = deposit_contract.authority
    /\ last_call.err = "AssetNotSupported"

\* --------------------------------------------------------------------- C23
\* the event a successful cross-chain call c is to emit
CrossChainEvent(c) ==
    [name |-> IF c.op = "borrow_cross_chain"
              THEN "BorrowCrossChainInitiated" ELSE "WithdrawCrossChainInitiated",
     user |-> Caller(c), asset |-> c.args.asset, amount |-> c.args.amount,
     destination_chain |-> c.args.destination_chain,
     recipient |-> c.args.recipient]

\* C23: a successful borrow_cross_chain or withdraw_cross_chain moves no value:
\* it leaves every balance, the configuration and the registry unchanged, relays
\* one message through the gateway's call adapter and emits exactly the matching
\* BorrowCrossChainInitiated / WithdrawCrossChainInitiated event with the call's
\* user, asset, amount, destination chain and recipient.
C23_RelayOnly ==
    [][(last_call'.op \in CrossChainOps /\ last_call'.err = Ok) =>
         /\ UNCHANGED <<balances, dc_accounts, deposit_contract, pda>>
         /\ last_call'.events = <<CrossChainEvent(last_call')>>
         /\ Len(last_call'.submits) = 1
         /\ last_call'.submits[1].adapter = "call"
         /\ last_call'.submits[1].amount = 0]_vars

\* --------------------------------------------------------------------- C24
SupplyLikeEncoders == {"encode_supply_message", "encode_repay_message"}
CrossChainEncoders == {"encode_borrow_cross_chain_message",
                       "encode_withdraw_cross_chain_message"}
SupplyLikeDecoders == {"SupplyMessage::try_from_slice",
                       "RepayMessage::try_from_slice"}
CrossChainDecoders == {"BorrowCrossChainMessage::try_from_slice",
                       "WithdrawCrossChainMessage::try_from_slice"}

\* the action an encoder writes
ActionOf(op) ==
    CASE op = "encode_supply_message" -> copy_action(SUPPLY)
      [] op = "encode_repay_message" -> copy_action(REPAY)
      [] op = "encode_borrow_cross_chain_message" ->
            copy_action(BORROW_CROSS_CHAIN)
      [] op = "encode_withdraw_cross_chain_message" ->
            copy_action(WITHDRAW_CROSS_CHAIN)

\* the four actions the encoders write
KnownActions == {ActionOf(op) : op \in SupplyLikeEncoders \cup CrossChainEncoders}

\* decoding what the encoder call c returned gives back the fields c was
\* called with, the timestamp aside
RoundTrips(c) ==
    IF c.op \in SupplyLikeEncoders
    THEN LET d == SupplyMessage_try_from_slice(c.message) IN
         /\ d.err = Ok
         /\ d.action = ActionOf(c.op)
         /\ d.on_behalf_of = c.args.on_behalf_of
         /\ d.amount = c.args.amount
    ELSE LET d == BorrowCrossChainMessage_try_from_slice(c.message) IN
         /\ d.err = Ok
         /\ d.action = ActionOf(c.op)
         /\ d.user = c.args.user
         /\ d.amount = c.args.amount
         /\ d.destination_chain = c.args.destination_chain
         /\ d.recipient = c.args.recipient

\* the decoder call c was given fewer bytes than its message has
TooShort(c) ==
    Len(c.args.v) < (IF c.op \in SupplyLikeDecoders
                     THEN SUPPLY_MESSAGE_LEN ELSE CROSS_CHAIN_MESSAGE_LEN)

\* the decoder call c was given a message of the right size whose action is
\* none of the four
ForeignAction(c) ==
    /\ ~TooShort(c)
    /\ SubSeq(c.args.v, 1, 16) \notin KnownActions

\* C24: typed round trip: decoding what an encoder returned reproduces the
\* intent's fields apart from the timestamp, for Supply, Repay,
\* BorrowCrossChain and WithdrawCrossChain; decoding an input with an
\* unrecognized action fails, and so does decoding an input shorter than the
\* message.
C24_TypedRoundTrip ==
    /\ last_call.op \in SupplyLikeEncoders \cup CrossChainEncoders =>
          RoundTrips(last_call)
    /\ last_call.op \in SupplyLikeDecoders \cup CrossChainDecoders =>
          /\ TooShort(last_call) => last_call.err # Ok
          /\ ForeignAction(last_call) => last_call.err # Ok

\* --------------------------------------------------------------------- C25
\* the action name an encoder is given
NameOf(op) ==
    CASE op = "encode_supply_message" -> SUPPLY
      [] op = "encode_repay_message" -> REPAY
      [] op = "encode_borrow_cross_chain_message" -> BORROW_CROSS_CHAIN
      [] op = "encode_withdraw_cross_chain_message" -> WITHDRAW_CROSS_CHAIN

\* name followed by zero bytes up to 16 bytes
ZeroPadded(name) == name \o Zeros(16 - Len(name))

\* the first 16 bytes of name, followed by zero bytes when name is shorter
CutOrPadded(name) ==
    IF Len(name) >= 16 THEN SubSeq(name, 1, 16) ELSE ZeroPadded(name)

\* bytes from .. from+7 of m are x, an integer below 2^32, least significant
\* byte first
LittleEndian8(m, from, x) ==
    /\ \A k \in 0..3 : m[from + k] = (x \div (256 ^ k)) % 256
    /\ \A k \in 4..7 : m[from + k] = 0

\* the fields that follow the 16 bytes of the action in what the encoder call c
\* returned, each at its fixed offset
FieldsLaidOut(c) ==
    LET m == c.message IN
    IF c.op \in SupplyLikeEncoders
    THEN /\ Len(m) = 52
         /\ SubSeq(m, 17, 36) = c.args.on_behalf_of
         /\ LittleEndian8(m, 37, c.args.amount)
         /\ LittleEndian8(m, 45, c.args.unix_timestamp)
    ELSE /\ Len(m) = 92
         /\ SubSeq(m, 17, 48) = c.args.user
         /\ LittleEndian8(m, 49, c.args.amount)
         /\ LittleEndian8(m, 57, c.args.destination_chain)
         /\ SubSeq(m, 65, 84) = c.args.recipient
         /\ LittleEndian8(m, 85, c.args.unix_timestamp)

C26_DestinationAllowListed ==
    [][(/\ IsDc
        /\ last_call'.op = "borrow_cross_chain"
        /\ contract_state # NoAccount
        /\ ~contract_state.is_paused
        /\ last_call'.args.amount > 0) =>
            last_call'.err =
                IF last_call'.args.destination_chain \in SupportedDestinationChains
                THEN Ok ELSE "InvalidChainId"]_vars

\* --------------------------------------------------------------------- C27
\* C27: initialize accepts only a known ZetaChain network identifier: on a
\* contract not yet initialized it succeeds for zeta_chain_id 7000 or 7001 and
\* fails with InvalidChainId for every other value, leaving the contract
\* uninitialized.
C27_InitializeKnownChainOnly ==
    [][(/\ IsDc
        /\ last_call'.op = "initialize"
        /\ contract_state = NoAccount) =>
            IF last_call'.args.zeta_chain_id \in SupportedZetaChains
            THEN last_call'.err = Ok /\ contract_state' # NoAccount
            ELSE /\ last_call'.err = "InvalidChainId"
                 /\ contract_state' = NoAccount]_vars

\* --------------------------------------------------------------------- C28
\* the registry of `contract` is within its capacity: asset_count is in
\* 0..MAX_SUPPORTED_ASSETS, the slots in use are exactly the first asset_count
\* ones, and each of them holds an entry with is_supported = true
WithinCapacity(contract) ==
    /\ contract.asset_count \in 0..MAX_SUPPORTED_ASSETS
    /\ DOMAIN contract.supported_assets = 1..contract.asset_count
    /\ \A i \in 1..contract.asset_count : contract.supported_assets[i].is_supported

\* C28: in the secure connected program the registry is bounded: in every
\* reachable state 0 <= asset_count <= 32 and supported_assets[0..asset_count)
\* are exactly the live entries; add_supported_asset fails when asset_count =
\* 32 (with MaxAssetsReached for the authority) and changes nothing, and a
\* successful add writes slot asset_count and no other.
C28_RegistryBounded ==
    [][(IsSc /\ deposit_contract' # NoAccount) =>
         /\ WithinCapacity(deposit_contract')
         /\ (/\ last_call'.op = "add_supported_asset"
             /\ deposit_contract # NoAccount
             /\ deposit_contract.asset_count = MAX_SUPPORTED_ASSETS) =>
                /\ last_call'.err # Ok
                /\ UNCHANGED deposit_contract
                /\ last_call'.args.signer = deposit_contract.authority =>
                      last_call'.err = "MaxAssetsReached"
         /\ (last_call'.op = "add_supported_asset" /\ last_call'.err = Ok) =>
                /\ deposit_contract.asset_count < MAX_SUPPORTED_ASSETS
                /\ deposit_contract'.asset_count = deposit_contract.asset_count + 1
                /\ \A i \in 1..deposit_contract.asset_count :
                      deposit_contract'.supported_assets[i]
                        = deposit_contract.supported_assets[i]
                /\ deposit_contract'.supported_assets[
                      deposit_contract'.asset_count].mint
                        = last_call'.args.asset_mint]_vars

\* the authority's add_supported_asset was rejected by a full registry
C28_FullRegistrySeen ==
    /\ IsSc
    /\ deposit_contract # NoAccount
    /\ deposit_contract.asset_count = MAX_SUPPORTED_ASSETS
    /\ Len(deposit_contract.supported_assets) = MAX_SUPPORTED_ASSETS
    /\ last_call.op = "add_supported_asset"
    /\ last_call.args.signer = deposit_contract.authority
    /\ last_call.err = "MaxAssetsReached"

\* --------------------------------------------------------------------- C29
\* the step is a successful on_call
OnCallSucceeds == last_call'.op = "on_call" /\ last_call'.err = Ok

\* C29: the mailbox is a single slot written only by a successful on_call: a
\* successful on_call(sender, data) has well-formed UTF-8 data and leaves
\* exactly (sender, data) in the mailbox whatever it held before; no other
\* entry point and no failed on_call changes an existing mailbox.  Both
\* connected programs.
C29_MailboxLastWriteWins ==
    [][/\ OnCallSucceeds =>
            /\ pda # NoAccount
            /\ IsUtf8(last_call'.args.data)
            /\ pda' = [last_sender |-> last_call'.args.sender,
                       last_message |-> last_call'.args.data]
       /\ (pda # NoAccount /\ ~OnCallSucceeds) => pda' = pda]_vars

\* an on_call of the example program has replaced the mailbox content by a
\* sender and an empty message
C29_OverwrittenSeen ==
    /\ program = "connected_example"
    /\ last_call.op = "on_call"
    /\ last_call.err = Ok
    /\ last_call.args.data = <<>>
    /\ pda = [last_sender |-> last_call.args.sender, last_message |-> <<>>]
    /\ pda.last_sender # Addr(0)

\* --------------------------------------------------------------------- C30
\* how far the inbound call c gets through the checks of the secure on_call,
\* taken one after the other: the error of the first check it fails, Ok when it
\* passes all four
FirstFailure(c) ==
    IF c.args.gateway_pda # ZETACHAIN_GATEWAY_PROGRAM_ID
    THEN "UnauthorizedGateway"
    ELSE IF c.args.tss_signer # TSS_AUTHORITY THEN "UnauthorizedTssAuthority"
    ELSE IF c.args.data = <<>> THEN "InvalidMessage"
    ELSE IF ~IsUtf8(c.args.data) THEN "InvalidDataFormat"
    ELSE Ok

\* C30: inbound authentication in the secure connected program is linear: the
\* gateway identity is checked before the TSS authority, which is checked
\* before the message shape, which is checked before UTF-8 decoding and the
\* mailbox write; a call failing several checks reports the error of the
\* earliest one, and the mailbox is written only after all checks pass.
C30_ChecksInOrder ==
    [][(IsSc /\ last_call'.op = "on_call" /\ pda # NoAccount) =>
         /\ last_call'.err = FirstFailure(last_call')
         /\ pda' # pda => FirstFailure(last_call') = Ok
         /\ FirstFailure(last_call') = Ok =>
               pda' = [last_sender |-> last_call'.args.sender,
                       last_message |-> last_call'.args.data]]_vars

\* a call with a wrong gateway, a wrong TSS signer and an ill-formed payload
\* was rejected for its gateway
C30_EarliestErrorSeen ==
    /\ IsSc
    /\ last_call.op = "on_call"
    /\ last_call.args.gateway_pda # ZETACHAIN_GATEWAY_PROGRAM_ID
    /\ last_call.args.tss_signer # TSS_AUTHORITY
    /\ ~IsUtf8(last_call.args.data)
    /\ last_call.err = "UnauthorizedGateway"
    /\ pda = [last_sender |-> Addr(0), last_message |-> <<>>]

\* --------------------------------------------------------------------- C31
\* C31: in the secure connected program an on_call from the trusted gateway and
\* the configured TSS authority with an empty payload fails with InvalidMessage
\* and leaves the mailbox unchanged; no on_call stores an empty message.
C31_EmptyPayloadRejected ==
    [][(IsSc /\ last_call'.op = "on_call" /\ pda # NoAccount) =>
         /\ (/\ last_call'.args.gateway_pda = ZETACHAIN_GATEWAY_PROGRAM_ID
             /\ last_call'.args.tss_signer = TSS_AUTHORITY
             /\ last_call'.args.data = <<>>) =>
                (last_call'.err = "InvalidMessage" /\ pda' = pda)
         /\ last_call'.args.data = <<>> =>
                (last_call'.err # Ok /\ pda' = pda)]_vars

\* an authenticated on_call with an empty payload was rejected after the
\* mailbox had taken a message
C31_EmptyPayloadSeen ==
    /\ IsSc
    /\ last_call.op = "on_call"
    /\ last_call.args.gateway_pda = ZETACHAIN_GATEWAY_PROGRAM_ID
    /\ last_call.args.tss_signer = TSS_AUTHORITY
    /\ last_call.args.data = <<>>
    /\ last_call.err = "InvalidMessage"
    /\ pda # NoAccount
    /\ pda.last_message # <<>>

\* --------------------------------------------------------------------- C32
\* the user-facing flows of the three programs
UserOps == AmountOps \cup {"on_call"}

\* the configuration and the registry of both programs
config_and_registry == <<contract_state, asset_config, deposit_contract>>

\* C32: user-facing flows (deposits, repays, borrow_cross_chain,
\* withdraw_cross_chain, on_call), successful or failed, leave authority,
\* lending_protocol_address, zeta_chain_id, is_paused and every registry entry
\* unchanged; the configuration and the registry change only in a successful
\* initialize, which creates the configuration with its signer as authority,
\* and in a successful authority-only call signed by the stored authority.
C32_UserFlowsKeepConfig ==
    [][/\ last_call'.op \in UserOps => UNCHANGED config_and_registry
       /\ ~UNCHANGED config_and_registry =>
            /\ last_call'.err = Ok
            /\ last_call'.op \in GatedOps \cup {"initialize"}
            /\ last_call'.op = "initialize" =>
                  /\ Config = NoAccount
                  /\ Config'.authority = last_call'.args.authority
            /\ last_call'.op \in GatedOps =>
                  /\ Config # NoAccount
                  /\ last_call'.args.signer = Config.authority]_vars

\* a token deposit has succeeded on a contract whose registry entry and
\* configuration are in place
C32_DepositKeptConfigSeen ==
    /\ IsDc
    /\ last_call.op = "deposit_spl_token"
    /\ last_call.err = Ok
    /\ contract_state # NoAccount
    /\ ~contract_state.is_paused
    /\ asset_config[last_call.args.mint] # NoAccount
    /\ asset_config[last_call.args.mint].is_supported
    /\ token_balance[CONTRACT][last_call.args.mint] > 0

\* --------------------------------------------------------------------- C33
\* the new address argument of an update_lending_protocol_address call
NewAddress(c) ==
    IF IsDc THEN c.args.new_lending_protocol_address ELSE c.args.new_address

\* C33: a successful update_lending_protocol_address(new, chain) sets
\* lending_protocol_address to new, changes no other field, and emits one
\* address-change event whose old_address is the value stored immediately
\* before the call and whose new_address is new; initialize stores its address
\* argument and no other step changes the stored address, so that it always
\* equals the argument of the last successful update, or the initialize value.
C33_AddressFollowsUpdates ==
    [][/\ (last_call'.op = "update_lending_protocol_address"
           /\ last_call'.err = Ok) =>
            /\ Config' = [Config EXCEPT
                  !.lending_protocol_address = NewAddress(last_call')]
            /\ UNCHANGED <<asset_config, contract_token_account, pda, balances>>
            /\ Len(last_call'.events) = 1
            /\ last_call'.events[1].name = "LendingProtocolAddressUpdated"
            /\ last_call'.events[1].old_address = Config.lending_protocol_address
            /\ last_call'.events[1].new_address = NewAddress(last_call')
       /\ (last_call'.op = "initialize" /\ last_call'.err = Ok /\ (IsDc \/ IsSc)) =>
            Config'.lending_protocol_address
                = last_call'.args.lending_protocol_address
       /\ (/\ Config # NoAccount
           /\ ~(last_call'.op = "update_lending_protocol_address"
                /\ last_call'.err = Ok)) =>
            /\ Config' # NoAccount
            /\ Config'.lending_protocol_address = Config.lending_protocol_address]_vars

\* the first successful update of the secure program has replaced the address
\* of initialize and reported it as old_address
C33_AddressReplacedSeen ==
    /\ IsSc
    /\ last_call.op = "update_lending_protocol_address"
    /\ last_call.err = Ok
    /\ deposit_contract # NoAccount
    /\ deposit_contract.lending_protocol_address = last_call.args.new_address
    /\ last_call.events[1].old_address \in Beneficiaries
    /\ last_call.events[1].old_address # last_call.args.new_address

\* --------------------------------------------------------------------- C34
\* the step is set_pause_state of deposit_contract signed by the authority
AuthoritySetsPause ==
    /\ IsDc
    /\ contract_state # NoAccount
    /\ last_call'.op = "set_pause_state"
    /\ last_call'.args.signer = contract_state.authority

\* the call made just before the step was a successful set_pause_state with
\* the same argument as the one the step makes
RepeatsSetPause ==
    /\ last_call.op = "set_pause_state"
    /\ last_call.err = Ok
    /\ last_call.args.is_paused = last_call'.args.is_paused

\* C34: set_pause_state(x) by the authority is an unconditional write: it
\* succeeds whatever the current value of is_paused, sets is_paused = x, changes
\* no other field and emits PauseStateChanged{x} even when the value does not
\* change; called again with the same x it leaves the state as the first call
\* left it.
C34_SetPauseUnconditional ==
    [][AuthoritySetsPause =>
         /\ last_call'.err = Ok
         /\ contract_state' =
               [contract_state EXCEPT !.is_paused = last_call'.args.is_paused]
         /\ UNCHANGED <<asset_config, contract_token_account, deposit_contract,
                        pda, balances>>
         /\ last_call'.events =
               <<[name |-> "PauseStateChanged",
                  is_paused |-> last_call'.args.is_paused]>>
         /\ RepeatsSetPause =>
               (contract_state' = contract_state /\ last_call' = last_call)]_vars

\* the authority has paused the contract and PauseStateChanged{true} was emitted
C34_PauseWrittenSeen ==
    /\ DcPaused
    /\ last_call.op = "set_pause_state"
    /\ last_call.err = Ok
    /\ last_call.args.signer = contract_state.authority
    /\ last_call.args.is_paused
    /\ last_call.events = <<[name |-> "PauseStateChanged", is_paused |-> TRUE]>>

\* --------------------------------------------------------------------- C35
\* the errors a require! of a user-facing entry point of deposit_contract returns
DcPreconditionErrors ==
    {"ContractPaused", "InvalidAmount", "InsufficientDepositFee",
     "UnsupportedAsset", "UseDepositSol", "UseRepaySol"}

\* the error of the first precondition, in the order pause, amount > 0,
\* fee floor (SOL paths) or is_supported (token paths), is_native, that the call
\* c fails in the current state; Ok when it fails none
DcFirstFailure(c) ==
    CASE contract_state.is_paused -> "ContractPaused"
      [] OTHER ->
         CASE c.args.amount = 0 -> "InvalidAmount"
           [] OTHER ->
              CASE c.op \in NativeOps /\ c.args.amount < DEPOSIT_FEE ->
                      "InsufficientDepositFee"
                [] c.op \in TokenOps /\ ~asset_config[c.args.mint].is_supported ->
                      "UnsupportedAsset"
                [] OTHER ->
                   CASE c.op = "deposit_spl_token"
                          /\ asset_config[c.args.mint].is_native -> "UseDepositSol"
                     [] c.op = "repay_spl_token"
                          /\ asset_config[c.args.mint].is_native -> "UseRepaySol"
                     [] OTHER -> Ok

Occurrences(a, e) == Cardinality({i \in DOMAIN a : a[i] = e})

\* i is the first live slot of the current registry whose mint is asset
FirstMatch(i, asset) ==
    LET a == deposit_contract.supported_assets IN
    /\ i \in 1..deposit_contract.asset_count
    /\ a[i].mint = asset
    /\ \A j \in 1..(i - 1) : a[j].mint # asset

\* C36: in the secure connected program a successful remove_supported_asset(X)
\* removes exactly one entry, the first whose mint is X, decreases asset_count
\* by exactly 1 and keeps every other live entry present exactly once with its
\* mint, decimals, is_native and is_supported; only the former last entry may
\* change position (it takes the removed slot).
C36_RemoveExactlyFirstMatch ==
    [][(/\ IsSc
        /\ last_call'.op = "remove_supported_asset"
        /\ last_call'.err = Ok) =>
         LET a == deposit_contract.supported_assets
             n == deposit_contract.asset_count
             b == deposit_contract'.supported_assets
         IN
         \E i \in 1..n :
            /\ FirstMatch(i, last_call'.args.asset_mint)
            /\ deposit_contract'.asset_count = n - 1
            /\ Len(b) = n - 1
            /\ \A j \in 1..(n - 1) : j # i => b[j] = a[j]
            /\ i < n => b[i] = a[n]
            /\ \A e \in {a[j] : j \in 1..n} :
                  Occurrences(b, e) =
                     Occurrences(a, e) - (IF e = a[i] THEN 1 ELSE 0)
            /\ \A j \in 1..(n - 1) : Occurrences(a, b[j]) > 0
            /\ deposit_contract' =
                  [deposit_contract EXCEPT !.supported_assets = b,
                                           !.asset_count = n - 1]]_vars

\* a removal has succeeded and left two live entries of different mints, one
\* of which is another entry of the removed mint
C36_OtherEntriesKeptSeen ==
    /\ IsSc
    /\ last_call.op = "remove_supported_asset"
    /\ last_call.err = Ok
    /\ deposit_contract.asset_count = 2
    /\ deposit_contract.supported_assets[1].mint = last_call.args.asset_mint
    /\ deposit_contract.supported_assets[2].mint # last_call.args.asset_mint

\* --------------------------------------------------------------------- C37
\* the asset_config record of mint exists and has been removed
DcRemoved(mint) ==
    /\ asset_config[mint] # NoAccount
    /\ ~asset_config[mint].is_supported

\* C37: in deposit_contract removal is permanent: a successful
\* remove_supported_asset leaves the mint's record with is_supported false, and
\* from then on no entry-point call makes it true again: the record stays,
\* add_supported_asset for that mint fails because the record exists, and
\* deposit_spl_token and repay_spl_token on that mint fail.
C37_RemovalPermanent ==
    [][IsDc =>
         /\ (last_call'.op = "remove_supported_asset" /\ last_call'.err = Ok) =>
               /\ asset_config'[last_call'.args.mint] # NoAccount
               /\ ~asset_config'[last_call'.args.mint].is_supported
         /\ \A mint \in DOMAIN asset_config :
               DcRemoved(mint) =>
                  /\ asset_config'[mint] # NoAccount
                  /\ ~asset_config'[mint].is_supported
                  /\ (/\ last_call'.op = "add_supported_asset"
                      /\ last_call'.args.mint = mint) =>
                         last_call'.err = "AccountAlreadyInUse"
                  /\ (/\ last_call'.op \in {"deposit_spl_token", "repay_spl_token"}
                      /\ last_call'.args.mint = mint) =>
                         /\ last_call'.err # Ok
                         /\ UNCHANGED balances]_vars

\* the authority's add_supported_asset for a removed mint has been rejected
\* because the mint's record exists, and the mint is still unsupported
C37_ReAddRejectedSeen ==
    /\ IsDc
    /\ contract_state # NoAccount
    /\ last_call.op = "add_supported_asset"
    /\ last_call.args.signer = contract_state.authority
    /\ last_call.err = "AccountAlreadyInUse"
    /\ asset_config[last_call.args.mint] # NoAccount
    /\ ~asset_config[last_call.args.mint].is_supported

\* --------------------------------------------------------------------- C38
TypedEncoders == SupplyLikeEncoders \cup CrossChainEncoders

\* the 16 bytes of the action in what the encoder call c returned
TagOf(c) == SubSeq(c.message, 1, 16)

\* C38: the 16-byte action tags written by the four typed encoders are pairwise
\* distinct, so that two encoded messages carry the same tag exactly when the
\* same encoder wrote them, whatever their other fields; "supply", "repay" and
\* "borrowCrossChain" are stored whole, followed by zero bytes, while the 18
\* bytes of "withdrawCrossChain" are cut to the first 16.
C38_TagsPairwiseDistinct ==
    [][last_call'.op \in TypedEncoders =>
         LET name == NameOf(last_call'.op) IN
         /\ last_call.op \in TypedEncoders =>
               (TagOf(last_call) = TagOf(last_call')
                   <=> last_call.op = last_call'.op)
         /\ Len(name) <= 16 =>
               /\ SubSeq(TagOf(last_call'), 1, Len(name)) = name
               /\ \A i \in (Len(name) + 1)..16 : TagOf(last_call')[i] = 0
         /\ Len(name) > 16 =>
               /\ last_call'.op = "encode_withdraw_cross_chain_message"
               /\ Len(name) = 18
               /\ TagOf(last_call') = SubSeq(name, 1, 16)]_vars

\* a withdraw message has been encoded whose tag is the cut name, which is the
\* tag of no other encoder
C38_CutTagSeen ==
    /\ last_call.op = "encode_withdraw_cross_chain_message"
    /\ TagOf(last_call) = SubSeq(WITHDRAW_CROSS_CHAIN, 1, 16)
    /\ \A op \in TypedEncoders \ {last_call.op} :
          TagOf(last_call) # CutOrPadded(NameOf(op))

\* --------------------------------------------------------------------- C39
\* the name written into the legacy message of a deposit or repay entry point
LegacyAction(op) == IF op \in DepositOps THEN SUPPLY ELSE REPAY

\* the entry points of deposit_contract that build a legacy message
LegacyOps == {"deposit_sol", "deposit_spl_token", "repay_sol", "repay_spl_token"}

\* C39: the legacy message of a deposit or repay is a function of the action and
\* the beneficiary only: it is the 128-byte layout of that action and that
\* beneficiary whatever the amount, asset, caller and contract state, so two
\* calls with the same action and beneficiary build byte-identical messages;
\* messages for different beneficiaries differ, and the supply and repay
\* messages for the same beneficiary differ.
C39_MessageOfActionAndBeneficiary ==
    [][last_call'.op \in LegacyOps =>
         /\ LegacyLayout(last_call'.message, last_call'.args.on_behalf_of,
                         LegacyAction(last_call'.op))
         /\ last_call.op \in LegacyOps =>
               (last_call.message = last_call'.message
                   <=> /\ LegacyAction(last_call.op) = LegacyAction(last_call'.op)
                       /\ last_call.args.on_behalf_of =
                             last_call'.args.on_behalf_of)]_vars

\* a repay message has been built, on a paused contract and with amount 0, for a
\* beneficiary that differs from another one in its last byte only; it differs
\* from the supply message for the same beneficiary and from the repay message
\* for the other one
C39_RepayMessageSeen ==
    /\ DcPaused
    /\ last_call.op = "repay_spl_token"
    /\ last_call.args.amount = 0
    /\ last_call.args.on_behalf_of = [Addr(2) EXCEPT ![20] = 3]
    /\ last_call.message # create_supply_message(last_call.args.on_behalf_of)
    /\ last_call.message # create_repay_message(Addr(2))

====
